---- MODULE Spec2Model ----
(***************************************************************************)
(* Model of the encryption subsystem of finance-cli                        *)
(* (src/finance-cli/src/encryption): key derivation (key.rs), the          *)
(* AES-256-GCM cipher wrappers (cipher.rs) and the zeroizing buffers       *)
(* (secure_memory.rs).                                                     *)
(*                                                                         *)
(* Buffers are sequences of cells.  A plain byte b is the cell <<b>>.      *)
(* The outputs of the library primitives (Argon2id, SHA-256, AES-GCM) are  *)
(* cells <<name, i, mask, term>>: cell i of the primitive's output on the  *)
(* input `term` (carried by cell 1), with `mask` the bits flipped in that  *)
(* cell since it was produced.  Two outputs are equal exactly when the     *)
(* primitive was applied to equal inputs: the primitives are taken to be   *)
(* collision free, the usual symbolic treatment of cryptography.  What the *)
(* random generators return is an input of the action that calls them.     *)
(***************************************************************************)
EXTENDS Integers, Sequences, FiniteSets, TLC

(* ---- program constants ---- *)
NONCE_SIZE == 12
TAG_SIZE == 16
SALT_SIZE == 16
ARGON2_OUTPUT_LEN == 32
SHA256_OUTPUT_LEN == 32
KEY_LEN == 32

(* ---- bounds of the model ---- *)
MaxLen == 1
MaxEnc == 2
MaxDerive == 2
MaxBufs == 4
MaxFmt == 2

MaxClock == 6

MaxBlockers == 2

(* ---- cells and byte strings ---- *)
Byte(b) == <<b>>

IsByte(c) == Len(c) = 1

Bytes(s) == [i \in 1..Len(s) |-> Byte(s[i])]

Fill(n, b) == [i \in 1..n |-> Byte(b)]

Pow2(k) == IF k = 0 THEN 1 ELSE IF k = 1 THEN 2 ELSE IF k = 2 THEN 4
           ELSE IF k = 3 THEN 8 ELSE IF k = 4 THEN 16 ELSE IF k = 5 THEN 32
           ELSE IF k = 6 THEN 64 ELSE 128

\* b with bit k inverted (b ^ (1 << k) on a u8)
FlipBit(b, k) == IF (b \div Pow2(k)) % 2 = 1 THEN b - Pow2(k) ELSE b + Pow2(k)

FlipCell(c, k) == IF IsByte(c) THEN Byte(FlipBit(c[1], k))
                  ELSE <<c[1], c[2], FlipBit(c[3], k), c[4]>>

\* The buffer s with bit k of its cell at position p inverted.
FlipAt(s, p, k) == [i \in 1..Len(s) |-> IF i = p THEN FlipCell(s[i], k) ELSE s[i]]

\* Output of a collision-free primitive `name` on input `term`: n cells.
Digest(name, term, n) ==
    [i \in 1..n |-> <<name, i, 0, IF i = 1 THEN term ELSE <<>>>>]

(* ---- results ---- *)
NoErr == [kind |-> "", msg |-> ""]

Ok(v, steps) == [ok |-> TRUE, val |-> v, err |-> NoErr, steps |-> steps]

Err(kind, msg, steps) ==
    [ok |-> FALSE, val |-> <<>>, err |-> [kind |-> kind, msg |-> msg], steps |-> steps]

(* ---- error/mod.rs ---- *)
\* Error::Encryption(e): every error of key.rs and cipher.rs is returned in this
\* variant, e being the EncryptionError with its kind and message.
ErrorEncryption(e) == [variant |-> "Encryption", inner |-> e]

RecoverableVariants == {"InvalidInput", "Validation", "Parse"}

\* Error::is_recoverable
is_recoverable(error) == error.variant \in RecoverableVariants

(* ---- key.rs ---- *)
KeyDomain == {"Database", "Config", "Backup"}

\* as_str with the Config arm returning the identifier of Backup
as_str_dup(domain) ==
    CASE domain = "Database" -> Bytes(<<100, 97, 116, 97, 98, 97, 115, 101>>)
      [] domain = "Config"   -> Bytes(<<98, 97, 99, 107, 117, 112>>)
      [] domain = "Backup"   -> Bytes(<<98, 97, 99, 107, 117, 112>>)

\* KeyDomain::as_str, as the bytes of the identifier
as_str(domain) ==
    CASE domain = "Database" -> Bytes(<<100, 97, 116, 97, 98, 97, 115, 101>>)
      [] domain = "Config"   -> Bytes(<<99, 111, 110, 102, 105, 103>>)
      [] domain = "Backup"   -> Bytes(<<98, 97, 99, 107, 117, 112>>)

\* Argon2id that hashes the salt alone
Argon2id_salt_only(password, salt) == Digest("argon2id", salt, ARGON2_OUTPUT_LEN)

\* Argon2id (m = 64 MiB, t = 3, p = 4, 32 bytes out) of password under salt.  The
\* salt has SALT_SIZE cells, so the input password \o salt determines both.
Argon2id(password, salt) == Digest("argon2id", password \o salt, ARGON2_OUTPUT_LEN)

\* derive_master_key: `hashOk` is whether the Argon2id computation succeeded
\* (it allocates 64 MiB and may fail).
derive_master_key(password, salt, hashOk) ==
    IF ~hashOk
    THEN Err("KeyDerivationFailed", "Password hashing failed", <<"argon2id">>)
    ELSE Ok(Argon2id(password, salt), <<"argon2id">>)

\* DerivedKey::as_bytes and AsRef<[u8]>, DerivedKey::salt, DerivedKey::domain: the
\* only public operations of a DerivedKey; its fields are private and
\* DerivedKey::new is private to key.rs.
as_bytes(k) == k.key

salt_of(k) == k.salt

domain_of(k) == k.domain

\* SHA-256 of the bytes fed to the hasher
Sha256(input) == Digest("sha256", input, SHA256_OUTPUT_LEN)

\* derive_domain_key returning its input unhashed
derive_domain_key_raw(master_key, domain) == master_key \o as_str(domain)

\* derive_domain_key: Sha256 over master_key followed by the domain identifier
derive_domain_key(master_key, domain) == Sha256(master_key \o as_str(domain))

NoSalt == <<>>

\* derive_key that generates a salt even when one is supplied
derive_key_fresh_salt(password, domain, salt, rngSalt, hashOk) ==
    LET used == rngSalt
        master == derive_master_key(password, used, hashOk)
    IN  IF ~master.ok THEN master
        ELSE Ok([key |-> derive_domain_key(master.val, domain),
                 salt |-> used, domain |-> domain],
                master.steps \o <<"sha256">>)

\* derive_key that bundles a newly generated salt instead of the one it hashed with
derive_key_other_salt(password, domain, salt, rngSalt, hashOk) ==
    LET used == IF salt = NoSalt THEN rngSalt ELSE salt
        master == derive_master_key(password, used, hashOk)
    IN  IF ~master.ok THEN master
        ELSE Ok([key |-> derive_domain_key(master.val, domain),
                 salt |-> rngSalt, domain |-> domain],
                master.steps \o <<"sha256">>)

\* derive_key(password, domain, salt): `salt` is NoSalt for None, `rngSalt` is
\* what Salt::generate would return.
derive_key(password, domain, salt, rngSalt, hashOk) ==
    LET used == IF salt = NoSalt THEN rngSalt ELSE salt
        master == derive_master_key(password, used, hashOk)
    IN  IF ~master.ok THEN master
        ELSE Ok([key |-> derive_domain_key(master.val, domain),
                 salt |-> used, domain |-> domain],
                master.steps \o <<"sha256">>)

(* ---- the AEAD (aes_gcm::Aes256Gcm) ---- *)
\* Payload cell i: plaintext cell pt encrypted under (key, nonce) at position i.
EncCell(key, nonce, i, pt) == <<"enc", i, 0, key \o nonce \o <<pt>>>>

AeadBody(key, nonce, plaintext) ==
    [i \in 1..Len(plaintext) |-> EncCell(key, nonce, i, plaintext[i])]

\* The tag authenticates key, nonce and the encrypted payload.
AeadTag(key, nonce, body) == Digest("tag", key \o nonce \o body, TAG_SIZE)

\* Aes256Gcm::encrypt(nonce, plaintext): payload followed by the 16-cell tag
AeadEncrypt(key, nonce, plaintext) ==
    LET body == AeadBody(key, nonce, plaintext)
    IN  body \o AeadTag(key, nonce, body)

\* Aes256Gcm::decrypt(nonce, data): the plaintext when the tag verifies
AeadDecrypt(key, nonce, data) ==
    IF Len(data) < TAG_SIZE THEN [ok |-> FALSE, pt |-> <<>>]
    ELSE LET n == Len(data) - TAG_SIZE
             body == SubSeq(data, 1, n)
             tag == SubSeq(data, n + 1, Len(data))
             pt == [i \in 1..n |-> body[i][4][Len(body[i][4])]]
         IN  IF /\ tag = AeadTag(key, nonce, body)
                /\ \A i \in 1..n : ~IsByte(body[i])
                /\ body = AeadBody(key, nonce, [i \in 1..n |->
                                 body[i][4][Len(body[i][4])]])
             THEN [ok |-> TRUE, pt |-> pt]
             ELSE [ok |-> FALSE, pt |-> <<>>]

(* ---- cipher.rs ---- *)
\* encrypt with the fill_bytes call left out: nonce_bytes stays [0u8; NONCE_SIZE]
encrypt_zero_nonce(plaintext, key, rng) ==
    IF Len(key.key) # KEY_LEN
    THEN Err("EncryptionFailed", "Key must be 32 bytes", <<"key_len">>)
    ELSE LET nonce_bytes == Fill(NONCE_SIZE, 0)
             ciphertext == AeadEncrypt(key.key, nonce_bytes, plaintext)
         IN  Ok(nonce_bytes \o ciphertext, <<"key_len", "aead">>)

\* encrypt returning the AEAD output without the nonce in front of it
encrypt_no_prepend(plaintext, key, rng) ==
    IF Len(key.key) # KEY_LEN
    THEN Err("EncryptionFailed", "Key must be 32 bytes", <<"key_len">>)
    ELSE Ok(AeadEncrypt(key.key, rng, plaintext), <<"key_len", "rng", "aead">>)

\* encrypt with the key length examined after the encryption instead of before it
encrypt_check_last(plaintext, key, rng) ==
    LET nonce_bytes == rng
        ciphertext == AeadEncrypt(key.key, nonce_bytes, plaintext)
    IN  IF Len(key.key) # KEY_LEN
        THEN Err("EncryptionFailed", "Key must be 32 bytes", <<"rng", "aead", "key_len">>)
        ELSE Ok(nonce_bytes \o ciphertext, <<"rng", "aead", "key_len">>)

\* encrypt(plaintext, key): `rng` is what thread_rng().fill_bytes puts in nonce_bytes
encrypt(plaintext, key, rng) ==
    IF Len(key.key) # KEY_LEN
    THEN Err("EncryptionFailed", "Key must be 32 bytes", <<"key_len">>)
    ELSE LET nonce_bytes == rng
             ciphertext == AeadEncrypt(key.key, nonce_bytes, plaintext)
         IN  Ok(nonce_bytes \o ciphertext, <<"key_len", "rng", "aead">>)

\* the split made at TAG_SIZE instead of NONCE_SIZE
split_nonce_off(ciphertext) ==
    <<SubSeq(ciphertext, 1, TAG_SIZE),
      SubSeq(ciphertext, TAG_SIZE + 1, Len(ciphertext))>>

\* decrypt splits its input into the nonce and the rest: ciphertext.split_at(NONCE_SIZE)
split_nonce(ciphertext) ==
    <<SubSeq(ciphertext, 1, NONCE_SIZE),
      SubSeq(ciphertext, NONCE_SIZE + 1, Len(ciphertext))>>

AuthFailed ==
    [kind |-> "DecryptionFailed",
     msg |-> "Decryption failed - invalid key or corrupted data"]

\* decrypt that maps an AEAD failure to an empty plaintext (unwrap_or_default)
decrypt_ok_on_failure(ciphertext, key) ==
    IF Len(ciphertext) < NONCE_SIZE + TAG_SIZE
    THEN Err("DecryptionFailed", "Ciphertext too short", <<"len">>)
    ELSE IF Len(key.key) # KEY_LEN
    THEN Err("DecryptionFailed", "Key must be 32 bytes", <<"len", "key_len">>)
    ELSE LET parts == split_nonce(ciphertext)
             r == AeadDecrypt(key.key, parts[1], parts[2])
         IN  Ok(r.pt, <<"len", "key_len", "aead">>)

\* decrypt that reports which of the two causes it believes made the AEAD fail
decrypt_leaky(ciphertext, key) ==
    IF Len(ciphertext) < NONCE_SIZE + TAG_SIZE
    THEN Err("DecryptionFailed", "Ciphertext too short", <<"len">>)
    ELSE IF Len(key.key) # KEY_LEN
    THEN Err("DecryptionFailed", "Key must be 32 bytes", <<"len", "key_len">>)
    ELSE LET parts == split_nonce(ciphertext)
             r == AeadDecrypt(key.key, parts[1], parts[2])
             tag1 == parts[2][Len(parts[2]) - TAG_SIZE + 1]
             sameKey == /\ ~IsByte(tag1)
                        /\ Len(tag1[4]) >= KEY_LEN
                        /\ SubSeq(tag1[4], 1, KEY_LEN) = key.key
         IN  IF r.ok THEN Ok(r.pt, <<"len", "key_len", "aead">>)
             ELSE IF sameKey
             THEN Err("DecryptionFailed", "corrupted data", <<"len", "key_len", "aead">>)
             ELSE Err("DecryptionFailed", "invalid key", <<"len", "key_len", "aead">>)

\* decrypt with the two precondition checks in the other order
decrypt_key_first(ciphertext, key) ==
    IF Len(key.key) # KEY_LEN
    THEN Err("DecryptionFailed", "Key must be 32 bytes", <<"key_len">>)
    ELSE IF Len(ciphertext) < NONCE_SIZE + TAG_SIZE
    THEN Err("DecryptionFailed", "Ciphertext too short", <<"key_len", "len">>)
    ELSE LET parts == split_nonce(ciphertext)
             r == AeadDecrypt(key.key, parts[1], parts[2])
         IN  IF ~r.ok
             THEN Err(AuthFailed.kind, AuthFailed.msg, <<"key_len", "len", "aead">>)
             ELSE Ok(r.pt, <<"key_len", "len", "aead">>)

\* decrypt(ciphertext, key)
decrypt(ciphertext, key) ==
    IF Len(ciphertext) < NONCE_SIZE + TAG_SIZE
    THEN Err("DecryptionFailed", "Ciphertext too short", <<"len">>)
    ELSE IF Len(key.key) # KEY_LEN
    THEN Err("DecryptionFailed", "Key must be 32 bytes", <<"len", "key_len">>)
    ELSE LET parts == split_nonce(ciphertext)
             r == AeadDecrypt(key.key, parts[1], parts[2])
         IN  IF ~r.ok
             THEN Err(AuthFailed.kind, AuthFailed.msg, <<"len", "key_len", "aead">>)
             ELSE Ok(r.pt, <<"len", "key_len", "aead">>)

\* std::str::from_utf8 accepts s (a sequence of byte cells) from position i on
RECURSIVE Utf8From(_, _)
Utf8From(s, i) ==
    LET n == Len(s)
        b(k) == s[k][1]
        cont(k) == k <= n /\ b(k) >= 128 /\ b(k) <= 191
        in(k, lo, hi) == k <= n /\ b(k) >= lo /\ b(k) <= hi
    IN  IF i > n THEN TRUE
        ELSE IF b(i) < 128 THEN Utf8From(s, i + 1)
        ELSE IF b(i) >= 194 /\ b(i) <= 223 THEN cont(i + 1) /\ Utf8From(s, i + 2)
        ELSE IF b(i) = 224 THEN in(i + 1, 160, 191) /\ cont(i + 2) /\ Utf8From(s, i + 3)
        ELSE IF b(i) = 237 THEN in(i + 1, 128, 159) /\ cont(i + 2) /\ Utf8From(s, i + 3)
        ELSE IF b(i) >= 225 /\ b(i) <= 239
             THEN cont(i + 1) /\ cont(i + 2) /\ Utf8From(s, i + 3)
        ELSE IF b(i) = 240
             THEN in(i + 1, 144, 191) /\ cont(i + 2) /\ cont(i + 3) /\ Utf8From(s, i + 4)
        ELSE IF b(i) >= 241 /\ b(i) <= 243
             THEN cont(i + 1) /\ cont(i + 2) /\ cont(i + 3) /\ Utf8From(s, i + 4)
        ELSE IF b(i) = 244
             THEN in(i + 1, 128, 143) /\ cont(i + 2) /\ cont(i + 3) /\ Utf8From(s, i + 4)
        ELSE FALSE

IsUtf8(s) == Utf8From(s, 1)

(* ---- base64 (base64::engine::general_purpose::STANDARD) ---- *)
\* The character of the standard alphabet for the 6-bit value v
B64Char(v) ==
    IF v < 26 THEN 65 + v
    ELSE IF v < 52 THEN 97 + (v - 26)
    ELSE IF v < 62 THEN 48 + (v - 52)
    ELSE IF v = 62 THEN 43 ELSE 47

\* The 6-bit value of the character c, -1 when c is not in the alphabet
B64Val(c) ==
    IF c >= 65 /\ c <= 90 THEN c - 65
    ELSE IF c >= 97 /\ c <= 122 THEN c - 71
    ELSE IF c >= 48 /\ c <= 57 THEN c + 4
    ELSE IF c = 43 THEN 62
    ELSE IF c = 47 THEN 63 ELSE -1

B64Pad == Byte(61)

AllBytes(s) == \A i \in 1..Len(s) : IsByte(s[i])

\* The 6-bit value number j of a group of one to three bytes
SextetVal(grp, j) ==
    LET b(i) == IF i <= Len(grp) THEN grp[i][1] ELSE 0
        v == (b(1) * 65536) + (b(2) * 256) + b(3)
    IN  IF j = 1 THEN v \div 262144
        ELSE IF j = 2 THEN (v \div 4096) % 64
        ELSE IF j = 3 THEN (v \div 64) % 64
        ELSE v % 64

\* Character j of the encoding of a group: computed for bytes; for the output
\* cells of a primitive, the cell <<"b64", j, 0, grp>> standing for that character.
B64Cell(grp, j) ==
    IF AllBytes(grp) THEN Byte(B64Char(SextetVal(grp, j))) ELSE <<"b64", j, 0, grp>>

\* encode without the padding characters (the STANDARD_NO_PAD engine)
b64encode_nopad(s) ==
    LET n == Len(s)
        full == n \div 3
        rest == n % 3
        outLen == (4 * full) + (IF rest = 0 THEN 0 ELSE rest + 1)
    IN  [k \in 1..outLen |->
            LET g == ((k - 1) \div 4) + 1
                j == ((k - 1) % 4) + 1
                hi == IF 3 * g <= n THEN 3 * g ELSE n
            IN  B64Cell(SubSeq(s, (3 * g) - 2, hi), j)]

\* Engine::encode: four characters for every group of three bytes, the last
\* group filled up with '='
b64encode(s) ==
    LET n == Len(s)
        groups == (n + 2) \div 3
    IN  [k \in 1..(4 * groups) |->
            LET g == ((k - 1) \div 4) + 1
                j == ((k - 1) % 4) + 1
                hi == IF 3 * g <= n THEN 3 * g ELSE n
                grp == SubSeq(s, (3 * g) - 2, hi)
            IN  IF j > Len(grp) + 1 THEN B64Pad ELSE B64Cell(grp, j)]

IsPad(c) == IsByte(c) /\ c[1] = 61

IsSextet(c) == Len(c) = 4 /\ c[1] = "b64"

\* The bytes of one group of four characters; padding only in the last group,
\* at most two characters of it, and no bits set behind the last byte.
B64DecodeQuad(q, last) ==
    LET pads == IF ~IsPad(q[4]) THEN 0 ELSE IF ~IsPad(q[3]) THEN 1 ELSE 2
        k == 4 - pads
        body == SubSeq(q, 1, k)
        v(j) == B64Val(body[j][1])
        v3 == v(IF k >= 3 THEN 3 ELSE 1)
        v4 == v(IF k = 4 THEN 4 ELSE 1)
        bytes == <<Byte((v(1) * 4) + (v(2) \div 16)),
                   Byte(((v(2) % 16) * 16) + (v3 \div 4)),
                   Byte(((v3 % 4) * 64) + v4)>>
        bad == [ok |-> FALSE, val |-> <<>>]
    IN  IF pads > 0 /\ ~last THEN bad
        ELSE IF AllBytes(body)
        THEN IF \E j \in 1..k : v(j) < 0 THEN bad
             ELSE IF k = 2 /\ v(2) % 16 # 0 THEN bad
             ELSE IF k = 3 /\ v(3) % 4 # 0 THEN bad
             ELSE [ok |-> TRUE, val |-> SubSeq(bytes, 1, k - 1)]
        ELSE IF /\ \A j \in 1..k : IsSextet(body[j]) /\ body[j][2] = j
                /\ \A j \in 1..k : body[j][4] = body[1][4]
                /\ Len(body[1][4]) = k - 1
        THEN [ok |-> TRUE, val |-> body[1][4]]
        ELSE bad

RECURSIVE B64DecodeFrom(_, _)
B64DecodeFrom(t, g) ==
    IF 4 * g > Len(t) THEN [ok |-> TRUE, val |-> <<>>]
    ELSE LET q == B64DecodeQuad(SubSeq(t, (4 * g) - 3, 4 * g), 4 * g = Len(t))
             rest == B64DecodeFrom(t, g + 1)
         IN  IF q.ok /\ rest.ok THEN [ok |-> TRUE, val |-> q.val \o rest.val]
             ELSE [ok |-> FALSE, val |-> <<>>]

\* Engine::decode: the bytes, or a DecodeError
b64decode(t) ==
    IF Len(t) % 4 # 0 THEN [ok |-> FALSE, val |-> <<>>] ELSE B64DecodeFrom(t, 1)

(* ---- String::from_utf8 ---- *)
\* core::str::from_utf8 on s from position i (1-based) on: error_len = -1 when s is
\* well formed; otherwise the Utf8Error: valid_up_to (0-based) and error_len,
\* 0 standing for None (the input ends inside a character).
RECURSIVE Utf8Scan(_, _)
Utf8Scan(s, i) ==
    LET n == Len(s)
        b(k) == s[k][1]
        has(k) == k <= n
        cont(k) == b(k) >= 128 /\ b(k) <= 191
        in(k, lo, hi) == b(k) >= lo /\ b(k) <= hi
        err(len) == [valid_up_to |-> i - 1, error_len |-> len]
        second3 == \/ b(i) = 224 /\ in(i + 1, 160, 191)
                   \/ b(i) >= 225 /\ b(i) <= 236 /\ cont(i + 1)
                   \/ b(i) = 237 /\ in(i + 1, 128, 159)
                   \/ b(i) >= 238 /\ b(i) <= 239 /\ cont(i + 1)
        second4 == \/ b(i) = 240 /\ in(i + 1, 144, 191)
                   \/ b(i) >= 241 /\ b(i) <= 243 /\ cont(i + 1)
                   \/ b(i) = 244 /\ in(i + 1, 128, 143)
    IN  IF i > n THEN [valid_up_to |-> n, error_len |-> -1]
        ELSE IF b(i) < 128 THEN Utf8Scan(s, i + 1)
        ELSE IF b(i) >= 194 /\ b(i) <= 223
        THEN IF ~has(i + 1) THEN err(0)
             ELSE IF ~cont(i + 1) THEN err(1)
             ELSE Utf8Scan(s, i + 2)
        ELSE IF b(i) >= 224 /\ b(i) <= 239
        THEN IF ~has(i + 1) THEN err(0)
             ELSE IF ~second3 THEN err(1)
             ELSE IF ~has(i + 2) THEN err(0)
             ELSE IF ~cont(i + 2) THEN err(2)
             ELSE Utf8Scan(s, i + 3)
        ELSE IF b(i) >= 240 /\ b(i) <= 244
        THEN IF ~has(i + 1) THEN err(0)
             ELSE IF ~second4 THEN err(1)
             ELSE IF ~has(i + 2) THEN err(0)
             ELSE IF ~cont(i + 2) THEN err(2)
             ELSE IF ~has(i + 3) THEN err(0)
             ELSE IF ~cont(i + 3) THEN err(3)
             ELSE Utf8Scan(s, i + 4)
        ELSE err(1)

from_utf8(s) == Utf8Scan(s, 1)

\* Display of FromUtf8Error (that of the Utf8Error inside it)
Utf8ErrorText(e) ==
    IF e.error_len = 0
    THEN "incomplete utf-8 byte sequence from index " \o ToString(e.valid_up_to)
    ELSE "invalid utf-8 sequence of " \o ToString(e.error_len)
             \o " bytes from index " \o ToString(e.valid_up_to)

(* ---- cipher.rs: the string interface ---- *)
\* encrypt_string(plaintext, key): plaintext is the bytes of a &str
encrypt_string(plaintext, key, rng) ==
    LET r == encrypt(plaintext, key, rng)
    IN  IF ~r.ok THEN r ELSE Ok(b64encode(r.val), r.steps \o <<"base64">>)

\* decrypt_string that validates what it was given as text before decrypting it
decrypt_string_utf8_first(ciphertext_b64, key) ==
    LET d == b64decode(ciphertext_b64)
        early == from_utf8(SelectSeq(d.val, IsByte))
        r == decrypt(d.val, key)
        u == from_utf8(r.val)
    IN  IF ~d.ok
        THEN Err("DecryptionFailed", "Invalid base64", <<"base64">>)
        ELSE IF early.error_len # -1
        THEN Err("DecryptionFailed", "Invalid UTF-8: " \o Utf8ErrorText(early),
                 <<"base64", "utf8">>)
        ELSE IF ~r.ok
        THEN Err(r.err.kind, r.err.msg, <<"base64", "utf8">> \o r.steps)
        ELSE IF u.error_len # -1
        THEN Err("DecryptionFailed", "Invalid UTF-8: " \o Utf8ErrorText(u),
                 <<"base64", "utf8">> \o r.steps)
        ELSE Ok(r.val, <<"base64", "utf8">> \o r.steps)

\* decrypt_string(ciphertext_b64, key).  The text that follows "Invalid base64: "
\* in the code describes ciphertext_b64 (an offset and a character of it) and is
\* left out.
decrypt_string(ciphertext_b64, key) ==
    LET d == b64decode(ciphertext_b64)
        r == decrypt(d.val, key)
        u == from_utf8(r.val)
    IN  IF ~d.ok
        THEN Err("DecryptionFailed", "Invalid base64", <<"base64">>)
        ELSE IF ~r.ok
        THEN Err(r.err.kind, r.err.msg, <<"base64">> \o r.steps)
        ELSE IF u.error_len # -1
        THEN Err("DecryptionFailed", "Invalid UTF-8: " \o Utf8ErrorText(u),
                 <<"base64">> \o r.steps \o <<"utf8">>)
        ELSE Ok(r.val, <<"base64">> \o r.steps \o <<"utf8">>)

(* ---- secure_memory.rs ---- *)
\* A buffer on the heap: `mem` is the whole allocation (its capacity), of which
\* the first `len` cells are the value; `kind` is the type that owns it.
Alloc(kind, role, data, spare) ==
    [kind |-> kind, role |-> role, live |-> TRUE, len |-> Len(data),
     mem |-> data \o spare]

SecureKinds == {"SecureBytes", "SecureString"}

\* Zeroize for Vec<u8> and String: every cell of the allocation, the spare
\* capacity included, is overwritten with zero and the length set to zero.
zeroize(b) == [b EXCEPT !.mem = Fill(Len(b.mem), 0), !.len = 0]

\* the end of life of a plain Vec, String or array: the memory is released as it is
drop_plain(b) == [b EXCEPT !.live = FALSE]

\* the wrappers declared without Zeroizing: SecureBytes(Vec<u8>), SecureString(String)
drop_secure_unwrapped(b) == drop_plain(b)

\* the end of life of a SecureBytes(Zeroizing<Vec<u8>>) or SecureString(Zeroizing<String>)
drop_secure(b) == [zeroize(b) EXCEPT !.live = FALSE]

drop(b) == IF b.kind \in SecureKinds THEN drop_secure(b) ELSE drop_plain(b)

Content(b) == SubSeq(b.mem, 1, b.len)

(* ---- secure_memory.rs: Debug ---- *)
\* The decimal digits of n, as {} prints a usize
RECURSIVE Decimal(_)
Decimal(n) == IF n < 10 THEN <<Byte(48 + n)>> ELSE Decimal(n \div 10) \o <<Byte(48 + (n % 10))>>

\* what #[derive(Debug)] would print for the tuple struct: the content in quotes
fmt_debug_string_derived(b) ==
    Bytes(<<83, 101, 99, 117, 114, 101, 83, 116, 114, 105, 110, 103, 40, 34>>) \o Content(b) \o Bytes(<<34, 41>>)

\* impl Debug for SecureString: "SecureString([REDACTED])"
fmt_debug_string(b) == Bytes(<<83, 101, 99, 117, 114, 101, 83, 116, 114, 105, 110, 103, 40, 91, 82, 69, 68, 65, 67, 84, 69, 68, 93, 41>>)

\* impl Debug for SecureBytes: "SecureBytes([REDACTED, <len> bytes])"
fmt_debug_bytes(b) ==
    Bytes(<<83, 101, 99, 117, 114, 101, 66, 121, 116, 101, 115, 40, 91, 82, 69, 68, 65, 67, 84, 69, 68, 44, 32>>) \o Decimal(b.len) \o Bytes(<<32, 98, 121, 116, 101, 115, 93, 41>>)

fmt_debug(b) == IF b.kind = "SecureString" THEN fmt_debug_string(b) ELSE fmt_debug_bytes(b)

(* ---- kanban-cli: state_machine.rs ---- *)
TaskStatus == {"Todo", "InProgress", "Blocked", "InQa", "Done"}

TaskStatus_as_str(s) ==
    CASE s = "Todo" -> "todo"
      [] s = "InProgress" -> "in-progress"
      [] s = "Blocked" -> "blocked"
      [] s = "InQa" -> "in-qa"
      [] s = "Done" -> "done"

\* FromStr for TaskStatus; the strings the program writes are lower case already.
TaskStatus_from_str(s) ==
    CASE s = "todo" -> [ok |-> TRUE, val |-> "Todo"]
      [] s \in {"in-progress", "in_progress", "inprogress"} ->
            [ok |-> TRUE, val |-> "InProgress"]
      [] s = "blocked" -> [ok |-> TRUE, val |-> "Blocked"]
      [] s \in {"in-qa", "in_qa", "inqa", "review"} -> [ok |-> TRUE, val |-> "InQa"]
      [] s \in {"done", "completed"} -> [ok |-> TRUE, val |-> "Done"]
      [] OTHER -> [ok |-> FALSE, val |-> "InvalidStatus"]

valid_transitions_reopen(from) ==
    CASE from = "Todo" -> <<"InProgress">>
      [] from = "InProgress" -> <<"Todo", "Blocked", "InQa">>
      [] from = "Blocked" -> <<"Todo", "InProgress">>
      [] from = "InQa" -> <<"InProgress", "Done">>
      [] from = "Done" -> <<"InProgress">>

valid_transitions_skip(from) ==
    CASE from = "Todo" -> <<"InProgress", "Done">>
      [] from = "InProgress" -> <<"Todo", "Blocked", "InQa">>
      [] from = "Blocked" -> <<"Todo", "InProgress">>
      [] from = "InQa" -> <<"InProgress", "Done">>
      [] from = "Done" -> <<>>

\* The order of each list is the order of the vec! in the source.
valid_transitions(from) ==
    CASE from = "Todo" -> <<"InProgress">>
      [] from = "InProgress" -> <<"Todo", "Blocked", "InQa">>
      [] from = "Blocked" -> <<"Todo", "InProgress">>
      [] from = "InQa" -> <<"InProgress", "Done">>
      [] from = "Done" -> <<>>

can_transition(from, to) ==
    \E i \in 1..Len(valid_transitions(from)) : valid_transitions(from)[i] = to

(* ---- kanban-cli: the database ---- *)
\* A database is a record of its tables:
\*   tasks:    task id -> row [status, updated_at, started_at, completed_at], the
\*             status as the string stored in the column;
\*   blockers: the rows in insertion order, the i-th with id B-00i,
\*             [task_id, status, created_at];
\*   history:  the task_history rows in insertion order (the AUTOINCREMENT id),
\*             [task_id, field_changed, old_value, new_value, changed_by, changed_at];
\*   deps:     the task_dependencies rows <<task_id, depends_on_task_id>>.
NoTime == -1

DbOk(db) == [ok |-> TRUE, err |-> NoErr, db |-> db]

DbErr(kind, msg, db) == [ok |-> FALSE, err |-> [kind |-> kind, msg |-> msg], db |-> db]

\* create_task for a task without dependencies, at time now.
create_task_row(now) ==
    [status |-> "todo", updated_at |-> now, started_at |-> NoTime,
     completed_at |-> NoTime]

task_from_row(id, row) ==
    [id |-> id,
     status |-> (IF TaskStatus_from_str(row.status).ok
                 THEN TaskStatus_from_str(row.status).val ELSE "Todo"),
     updated_at |-> row.updated_at,
     started_at |-> row.started_at,
     completed_at |-> row.completed_at]

get_task(db, task_id) ==
    IF task_id \in DOMAIN db.tasks
    THEN Ok(task_from_row(task_id, db.tasks[task_id]), 0)
    ELSE Err("NotFound", "Task not found: " \o ToString(task_id), 0)

(* ---- kanban-cli: operations/tasks.rs ---- *)
record_history_silent(db, now, task_id, field, old_value, new_value, changed_by) == db

record_history(db, now, task_id, field, old_value, new_value, changed_by) ==
    [db EXCEPT !.history = Append(@,
        [task_id |-> task_id, field_changed |-> field, old_value |-> old_value,
         new_value |-> new_value, changed_by |-> changed_by, changed_at |-> now])]

update_task_status_restart(db, now, task_id, new_status, changed_by) ==
    LET got == get_task(db, task_id) IN
    IF ~got.ok THEN DbErr(got.err.kind, got.err.msg, db)
    ELSE IF ~can_transition(got.val.status, new_status)
    THEN DbErr("InvalidTransition",
               "Cannot transition from '" \o TaskStatus_as_str(got.val.status)
                   \o "' to '" \o TaskStatus_as_str(new_status) \o "'", db)
    ELSE LET row == [db.tasks[task_id] EXCEPT
                        !.status = TaskStatus_as_str(new_status),
                        !.updated_at = now,
                        !.started_at = IF new_status = "InProgress" THEN now ELSE @,
                        !.completed_at = IF new_status = "Done" THEN now ELSE @]
             db2 == [db EXCEPT !.tasks[task_id] = row]
         IN DbOk(record_history(db2, now, task_id, "status",
                                TaskStatus_as_str(got.val.status),
                                TaskStatus_as_str(new_status), changed_by))

update_task_status(db, now, task_id, new_status, changed_by) ==
    LET got == get_task(db, task_id) IN
    IF ~got.ok THEN DbErr(got.err.kind, got.err.msg, db)
    ELSE IF ~can_transition(got.val.status, new_status)
    THEN DbErr("InvalidTransition",
               "Cannot transition from '" \o TaskStatus_as_str(got.val.status)
                   \o "' to '" \o TaskStatus_as_str(new_status) \o "'", db)
    ELSE LET task == got.val
             row == [db.tasks[task_id] EXCEPT
                        !.status = TaskStatus_as_str(new_status),
                        !.updated_at = now,
                        !.started_at =
                            IF new_status = "InProgress" /\ task.started_at = NoTime
                            THEN now ELSE @,
                        !.completed_at = IF new_status = "Done" THEN now ELSE @]
             db2 == [db EXCEPT !.tasks[task_id] = row]
         IN DbOk(record_history(db2, now, task_id, "status",
                                TaskStatus_as_str(task.status),
                                TaskStatus_as_str(new_status), changed_by))

\* The rows of task_dependencies of one task, as the ids of the tasks it depends on.
RECURSIVE SetToSeq(_)
SetToSeq(S) ==
    IF S = {} THEN <<>>
    ELSE LET m == CHOOSE x \in S : \A y \in S : x <= y
         IN <<m>> \o SetToSeq(S \ {m})

get_task_dependencies(db, task_id) ==
    SetToSeq({d \in DOMAIN db.tasks : <<task_id, d>> \in db.deps})

\* The while loop of would_create_cycle: steps counts the iterations made.
RECURSIVE would_create_cycle_loop(_, _, _, _, _)
would_create_cycle_loop(db, task_id, stack, visited, steps) ==
    IF stack = <<>> THEN [cycle |-> FALSE, steps |-> steps]
    ELSE LET current == stack[Len(stack)]
             rest == SubSeq(stack, 1, Len(stack) - 1)
         IN IF current = task_id THEN [cycle |-> TRUE, steps |-> steps + 1]
            ELSE IF current \in visited
            THEN would_create_cycle_loop(db, task_id, rest, visited, steps + 1)
            ELSE would_create_cycle_loop(db, task_id,
                     rest \o get_task_dependencies(db, current),
                     visited \cup {current}, steps + 1)

would_create_cycle_direct(db, task_id, depends_on) ==
    [cycle |-> (depends_on = task_id \/ <<depends_on, task_id>> \in db.deps),
     steps |-> 1]

would_create_cycle(db, task_id, depends_on) ==
    would_create_cycle_loop(db, task_id, <<depends_on>>, {}, 0)

add_task_dependency(db, task_id, depends_on) ==
    IF ~get_task(db, task_id).ok
    THEN DbErr("NotFound", get_task(db, task_id).err.msg, db)
    ELSE IF ~get_task(db, depends_on).ok
    THEN DbErr("NotFound", get_task(db, depends_on).err.msg, db)
    ELSE IF would_create_cycle(db, task_id, depends_on).cycle
    THEN DbErr("Dependency",
               "Cannot add dependency: would create circular reference", db)
    ELSE DbOk([db EXCEPT !.deps = @ \cup {<<task_id, depends_on>>}])

(* ---- kanban-cli: operations/blockers.rs ---- *)
get_blocker(db, blocker_id) ==
    IF blocker_id \in 1..Len(db.blockers)
    THEN Ok(db.blockers[blocker_id], 0)
    ELSE Err("NotFound", "Blocker not found: " \o ToString(blocker_id), 0)

add_blocker_no_auto(db, now, task_id) ==
    LET got == get_task(db, task_id) IN
    IF ~got.ok THEN DbErr(got.err.kind, got.err.msg, db)
    ELSE DbOk([db EXCEPT !.blockers = Append(@,
                 [task_id |-> task_id, status |-> "active", created_at |-> now])])

add_blocker(db, now, task_id) ==
    LET got == get_task(db, task_id) IN
    IF ~got.ok THEN DbErr(got.err.kind, got.err.msg, db)
    ELSE LET db2 == [db EXCEPT !.blockers = Append(@,
                        [task_id |-> task_id, status |-> "active",
                         created_at |-> now])]
         IN IF got.val.status = "InProgress"
            THEN update_task_status(db2, now, task_id, "Blocked", "system")
            ELSE DbOk(db2)

active_count(db, task_id) ==
    Cardinality({i \in 1..Len(db.blockers) :
                    db.blockers[i].task_id = task_id /\ db.blockers[i].status = "active"})

resolve_blocker_eager(db, now, blocker_id) ==
    LET got == get_blocker(db, blocker_id) IN
    IF ~got.ok THEN DbErr(got.err.kind, got.err.msg, db)
    ELSE LET blocker == got.val
             db2 == [db EXCEPT !.blockers[blocker_id].status = "resolved"]
         IN IF get_task(db2, blocker.task_id).val.status = "Blocked"
            THEN update_task_status(db2, now, blocker.task_id, "InProgress", "system")
            ELSE DbOk(db2)

resolve_blocker(db, now, blocker_id) ==
    LET got == get_blocker(db, blocker_id) IN
    IF ~got.ok THEN DbErr(got.err.kind, got.err.msg, db)
    ELSE LET blocker == got.val
             db2 == [db EXCEPT !.blockers[blocker_id].status = "resolved"]
         IN IF active_count(db2, blocker.task_id) = 0
            THEN LET task == get_task(db2, blocker.task_id) IN
                 IF ~task.ok THEN DbErr(task.err.kind, task.err.msg, db2)
                 ELSE IF task.val.status = "Blocked"
                 THEN update_task_status(db2, now, blocker.task_id, "InProgress",
                                         "system")
                 ELSE DbOk(db2)
            ELSE DbOk(db2)

\* escalate_blocker updates the row if there is one, then reads it back.
escalate_blocker(db, now, blocker_id) ==
    IF blocker_id \in 1..Len(db.blockers)
    THEN DbOk([db EXCEPT !.blockers[blocker_id].status = "escalated"])
    ELSE DbErr("NotFound", get_blocker(db, blocker_id).err.msg, db)

(* ---- state ---- *)
\* encLog: the encrypt calls made so far, each with its inputs, what the random
\*         generator returned to it, and its result.
\* dec:    the last decrypt call: its inputs, where the input came from (entry
\*         `src` of encLog, with bit `bit` of cell `pos` inverted when pos > 0, cut
\*         to `cut` cells when cut >= 0; src = 0: a buffer of zero bytes) and its result.
\* keyLog: the derive_key calls made so far.
\* heap:   every buffer allocated so far that held a secret or a copy of one, live
\*         or released.
\* memRes: how the last operation on the heap returned.
\* strEnc: the encrypt_string calls made so far (api = "encrypt_string"), and the
\*         encrypt calls whose output the caller encoded itself (api = "encrypt").
\* strDec: the last decrypt_string call, as dec is for decrypt.
\* fmtLog: the Debug formattings made so far: the value formatted and the output.
\* thr:    for every thread, the call it is in, where it is in it, and its locals.
\* frames: for every thread, the nonce_bytes array of the encrypt call on its stack.
\* db:     the kanban database (tasks, blockers, task_history, task_dependencies).
\* clock:  the wall clock that Utc::now() reads.
\* kres:   the last kanban operation or key press: its arguments, the status of its
\*         task when it was made, and how it returned.
\* app:    the board view: the task list it caches and its status line.
VARIABLES encLog, dec, keyLog, heap, memRes, strEnc, strDec, fmtLog, thr, frames,
          db, clock, kres, app

coreVars == <<encLog, dec, keyLog, heap, memRes>>

strVars == <<strEnc, strDec>>

fmtVars == <<fmtLog>>

thrVars == <<thr, frames>>

kanVars == <<db, clock, kres, app>>

vars == <<coreVars, strVars, fmtVars, thrVars, kanVars>>

(* ---- the kanban board in use ---- *)
TaskIds == 1..3

\* The tasks the board operations are called on; task ids outside TaskIds do not exist.
BoardTasks == {1, 2}

UnknownTask == 0

EmptyDb ==
    [tasks |-> [t \in TaskIds |-> create_task_row(0)],
     blockers |-> <<>>, history |-> <<>>, deps |-> {}]

NoCall ==
    [op |-> "", task_id |-> 0, blocker_id |-> 0, depends_on |-> 0,
     old_status |-> "", new_status |-> "",
     changed_by |-> "", ok |-> TRUE, err |-> NoErr, steps |-> 0]

\* list_tasks: what refresh_tasks stores in app.tasks.
list_tasks(d) == [t \in DOMAIN d.tasks |-> task_from_row(t, d.tasks[t])]

\* The status the task has for a caller that reads it, "" for a task that does not exist.
StatusOf(d, t) == IF get_task(d, t).ok THEN get_task(d, t).val.status ELSE ""

(* ---- inputs ---- *)
Passwords == {Bytes(<<112>>), Bytes(<<112, 119>>)}

Salt1 == Fill(SALT_SIZE, 1)

Salt2 == Fill(SALT_SIZE, 2)

Salts == {Salt1, Salt2}

NonceSpace == {Fill(NONCE_SIZE, 0), Fill(NONCE_SIZE, 170)}

ByteVals == {0, 255}

RECURSIVE SeqsUpTo(_, _)
SeqsUpTo(S, n) ==
    IF n = 0 THEN {<<>>}
    ELSE LET prev == SeqsUpTo(S, n - 1)
         IN  prev \cup {Append(s, x) : s \in {t \in prev : Len(t) = n - 1}, x \in S}

Plaintexts == {Bytes(s) : s \in SeqsUpTo(ByteVals, MaxLen)}

\* Keys the callers of the cipher hold: results of derive_key.
GoodKeys ==
    {derive_key(pw, "Database", Salt1, Salt1, TRUE).val : pw \in Passwords}

\* A DerivedKey whose key field is one cell short.  derive_key never returns one;
\* it is what the "Key must be 32 bytes" checks of encrypt and decrypt are for.
ShortKey ==
    LET k == derive_key(Bytes(<<112>>), "Database", Salt1, Salt1, TRUE).val
    IN  [k EXCEPT !.key = SubSeq(k.key, 1, KEY_LEN - 1)]

CipherKeys == GoodKeys \cup {ShortKey}

NoDec == [src |-> -1, pos |-> 0, bit |-> 0, cut |-> -1, data |-> <<>>,
          key |-> ShortKey, res |-> Err("", "", <<>>)]

NoStrDec == [src |-> -1, pos |-> 0, bit |-> 0, text |-> <<>>,
             key |-> ShortKey, res |-> Err("", "", <<>>)]

Threads == {1, 2}

\* A thread that has not called anything yet
IdleThread ==
    [pc |-> "idle", password |-> <<>>, m |-> <<>>, rng |-> <<>>, key |-> ShortKey,
     ct |-> <<>>, out |-> <<>>, res |-> Err("", "", <<>>)]

Init ==
    /\ encLog = <<>>
    /\ dec = NoDec
    /\ keyLog = <<>>
    /\ heap = <<>>
    /\ memRes = ""
    /\ strEnc = <<>>
    /\ strDec = NoStrDec
    /\ fmtLog = <<>>
    /\ thr = [t \in Threads |-> IdleThread]
    /\ frames = [t \in Threads |-> Fill(NONCE_SIZE, 0)]
    /\ db = EmptyDb
    /\ clock = 1
    /\ kres = NoCall
    /\ app = [tasks |-> list_tasks(EmptyDb), status_message |-> ""]

(* ---- the cipher's operations ---- *)
DoEncrypt ==
    /\ Len(encLog) < MaxEnc
    /\ \E key \in CipherKeys, m \in Plaintexts, rng \in NonceSpace :
         encLog' = Append(encLog, [key |-> key, m |-> m, rng |-> rng,
                                   res |-> encrypt(m, key, rng)])
    /\ UNCHANGED <<kanVars, dec, keyLog, heap, memRes, strVars, fmtVars, thrVars>>

\* A behaviour of SpecCipher is one encrypt call followed by one decrypt call.
Recording == dec = NoDec

DoEncryptFirst ==
    /\ Recording
    /\ encLog = <<>>
    /\ DoEncrypt

Last == encLog[Len(encLog)]

HaveCiphertext == Len(encLog) > 0 /\ Last.res.ok

\* decrypt of the ciphertext encrypt returned last, as it is
DoDecrypt ==
    /\ Recording
    /\ HaveCiphertext
    /\ \E key \in CipherKeys :
         dec' = [src |-> Len(encLog), pos |-> 0, bit |-> 0, cut |-> -1,
                 data |-> Last.res.val, key |-> key,
                 res |-> decrypt(Last.res.val, key)]
    /\ UNCHANGED <<kanVars, encLog, keyLog, heap, memRes, strVars, fmtVars, thrVars>>

\* decrypt of that ciphertext with one bit inverted
DoDecryptTampered ==
    /\ Recording
    /\ HaveCiphertext
    /\ \E key \in CipherKeys, pos \in 1..Len(Last.res.val), bit \in 0..7 :
         LET data == FlipAt(Last.res.val, pos, bit)
         IN  dec' = [src |-> Len(encLog), pos |-> pos, bit |-> bit, cut |-> -1,
                     data |-> data, key |-> key, res |-> decrypt(data, key)]
    /\ UNCHANGED <<kanVars, encLog, keyLog, heap, memRes, strVars, fmtVars, thrVars>>

\* decrypt of a proper prefix of that ciphertext
DoDecryptTruncated ==
    /\ Recording
    /\ HaveCiphertext
    /\ \E key \in CipherKeys, cut \in 0..(Len(Last.res.val) - 1) :
         LET data == SubSeq(Last.res.val, 1, cut)
         IN  dec' = [src |-> Len(encLog), pos |-> 0, bit |-> 0, cut |-> cut,
                     data |-> data, key |-> key, res |-> decrypt(data, key)]
    /\ UNCHANGED <<kanVars, encLog, keyLog, heap, memRes, strVars, fmtVars, thrVars>>

\* decrypt of a buffer of zero bytes that no encrypt call produced
DoDecryptZeros ==
    /\ Recording
    /\ \E key \in CipherKeys, n \in 0..(NONCE_SIZE + TAG_SIZE + MaxLen) :
         dec' = [src |-> 0, pos |-> 0, bit |-> 0, cut |-> -1,
                 data |-> Fill(n, 0), key |-> key,
                 res |-> decrypt(Fill(n, 0), key)]
    /\ UNCHANGED <<kanVars, encLog, keyLog, heap, memRes, strVars, fmtVars, thrVars>>

(* ---- key derivation ---- *)
\* derive_key(password, domain, salt), salt = NoSalt standing for None; rngSalt is
\* what the random generator would return and hashOk whether Argon2id succeeds.
DoDeriveKey ==
    /\ Len(keyLog) < MaxDerive
    /\ \E password \in Passwords, domain \in KeyDomain, salt \in Salts \cup {NoSalt},
          rngSalt \in Salts, hashOk \in BOOLEAN :
         keyLog' = Append(keyLog,
                     [password |-> password, domain |-> domain, salt |-> salt,
                      rng |-> IF salt = NoSalt THEN rngSalt ELSE NoSalt,
                      res |-> derive_key(password, domain, salt, rngSalt, hashOk)])
    /\ UNCHANGED <<kanVars, encLog, dec, heap, memRes, strVars, fmtVars, thrVars>>

NextKey == DoDeriveKey

SpecKey == Init /\ [][NextKey]_vars

(* ---- a derived key in use ---- *)
\* A behaviour of SpecUse is one derive_key call, then one encrypt call and one
\* decrypt call made with the DerivedKey it returned.
DoDeriveFirst ==
    /\ keyLog = <<>>
    /\ DoDeriveKey

UseEncrypt ==
    /\ Recording
    /\ encLog = <<>>
    /\ \E i \in {j \in 1..Len(keyLog) : keyLog[j].res.ok}, m \in Plaintexts, rng \in NonceSpace :
         encLog' = <<[key |-> keyLog[i].res.val, m |-> m, rng |-> rng,
                      res |-> encrypt(m, keyLog[i].res.val, rng)]>>
    /\ UNCHANGED <<kanVars, dec, keyLog, heap, memRes, strVars, fmtVars, thrVars>>

UseDecrypt ==
    /\ Recording
    /\ HaveCiphertext
    /\ \E i \in {j \in 1..Len(keyLog) : keyLog[j].res.ok}, cut \in {-1, NONCE_SIZE + TAG_SIZE - 1} :
         LET data == IF cut = -1 THEN Last.res.val ELSE SubSeq(Last.res.val, 1, cut)
         IN  dec' = [src |-> Len(encLog), pos |-> 0, bit |-> 0, cut |-> cut,
                     data |-> data, key |-> keyLog[i].res.val,
                     res |-> decrypt(data, keyLog[i].res.val)]
    /\ UNCHANGED <<kanVars, encLog, keyLog, heap, memRes, strVars, fmtVars, thrVars>>

NextUse ==
    \/ DoDeriveFirst
    \/ UseEncrypt
    \/ UseDecrypt

SpecUse == Init /\ [][NextUse]_vars

(* ---- the string interface in use ---- *)
\* Texts (the bytes of a &str): empty, ASCII, non-ASCII
Strings == {<<>>, Bytes(<<104>>), Bytes(<<195, 169>>), Bytes(<<104, 195, 169>>)}

\* Byte strings that are not UTF-8
RawTexts == {Bytes(<<255>>), Bytes(<<195>>), Bytes(<<104, 255>>), Bytes(<<255, 104>>)}

\* Texts no encrypt call produced: "!!!!", "AAA", "AAAA", and forty times 'A'
\* (the encoding of thirty zero bytes)
OtherTexts == {Fill(4, 33), Fill(3, 65), Fill(4, 65), Fill(40, 65)}

\* A behaviour of SpecStr is one encryption followed by one decrypt_string call.
StrRecording == strDec = NoStrDec

DoEncryptString ==
    /\ StrRecording
    /\ strEnc = <<>>
    /\ \E key \in CipherKeys, s \in Strings, rng \in NonceSpace :
         strEnc' = <<[api |-> "encrypt_string", key |-> key, m |-> s, rng |-> rng,
                      res |-> encrypt_string(s, key, rng)]>>
    /\ UNCHANGED <<kanVars, coreVars, strDec, fmtVars, thrVars>>

\* encrypt(m, key) on bytes that are no text, its output encoded by the caller
DoEncryptBytes ==
    /\ StrRecording
    /\ strEnc = <<>>
    /\ \E key \in CipherKeys, m \in RawTexts, rng \in NonceSpace :
         LET r == encrypt(m, key, rng)
         IN  strEnc' = <<[api |-> "encrypt", key |-> key, m |-> m, rng |-> rng,
                          res |-> IF r.ok THEN Ok(b64encode(r.val), r.steps) ELSE r]>>
    /\ UNCHANGED <<kanVars, coreVars, strDec, fmtVars, thrVars>>

HaveText == Len(strEnc) > 0 /\ strEnc[1].res.ok

\* decrypt_string of the text returned last, as it is
DoDecryptString ==
    /\ StrRecording
    /\ HaveText
    /\ \E key \in CipherKeys :
         strDec' = [src |-> 1, pos |-> 0, bit |-> 0, text |-> strEnc[1].res.val,
                    key |-> key, res |-> decrypt_string(strEnc[1].res.val, key)]
    /\ UNCHANGED <<kanVars, coreVars, strEnc, fmtVars, thrVars>>

\* decrypt_string of that text decoded, one bit inverted, and encoded again
DoDecryptStringTampered ==
    /\ StrRecording
    /\ HaveText
    /\ LET raw == b64decode(strEnc[1].res.val).val
       IN  \E key \in CipherKeys, pos \in 1..Len(raw), bit \in 0..7 :
             LET text == b64encode(FlipAt(raw, pos, bit))
             IN  strDec' = [src |-> 1, pos |-> pos, bit |-> bit, text |-> text,
                            key |-> key, res |-> decrypt_string(text, key)]
    /\ UNCHANGED <<kanVars, coreVars, strEnc, fmtVars, thrVars>>

\* decrypt_string of a text that is no output of an encryption
DoDecryptStringOther ==
    /\ StrRecording
    /\ \E key \in CipherKeys, text \in OtherTexts :
         strDec' = [src |-> 0, pos |-> 0, bit |-> 0, text |-> text,
                    key |-> key, res |-> decrypt_string(text, key)]
    /\ UNCHANGED <<kanVars, coreVars, strEnc, fmtVars, thrVars>>

NextStr ==
    \/ DoEncryptString
    \/ DoEncryptBytes
    \/ DoDecryptString
    \/ DoDecryptStringTampered
    \/ DoDecryptStringOther

SpecStr == Init /\ [][NextStr]_vars

(* ---- Debug formatting of secure values ---- *)
\* Secrets held in a SecureString: "secret", "hunter2", "REDACTED", "bytes", ""
SecretStrings ==
    {Bytes(<<115, 101, 99, 114, 101, 116>>), Bytes(<<104, 117, 110, 116, 101, 114, 50>>), Bytes(<<82, 69, 68, 65, 67, 84, 69, 68>>),
     Bytes(<<98, 121, 116, 101, 115>>), <<>>}

\* Secrets held in a SecureBytes: binary keys, and the text "7 bytes"
SecretBytes ==
    {Bytes(<<0>>), Bytes(<<255, 1>>), Bytes(<<222, 173, 190, 239>>),
     Bytes(<<55, 32, 98, 121, 116, 101, 115>>), Fill(KEY_LEN, 7)}

\* format!("{:?}", value) for a SecureString
DoDebugString ==
    /\ Len(fmtLog) < MaxFmt
    /\ \E secret \in SecretStrings :
         LET b == Alloc("SecureString", "password", secret, <<>>)
         IN  fmtLog' = Append(fmtLog, [kind |-> b.kind, secret |-> secret,
                                       out |-> fmt_debug(b)])
    /\ UNCHANGED <<kanVars, coreVars, strVars, thrVars>>

\* format!("{:?}", value) for a SecureBytes
DoDebugBytes ==
    /\ Len(fmtLog) < MaxFmt
    /\ \E secret \in SecretBytes :
         LET b == Alloc("SecureBytes", "bytes", secret, <<>>)
         IN  fmtLog' = Append(fmtLog, [kind |-> b.kind, secret |-> secret,
                                       out |-> fmt_debug(b)])
    /\ UNCHANGED <<kanVars, coreVars, strVars, thrVars>>

NextFmt ==
    \/ DoDebugString
    \/ DoDebugBytes

SpecFmt == Init /\ [][NextFmt]_vars

(* ---- calls made concurrently ---- *)
\* Every thread derives a key, encrypts one plaintext with it and decrypts the
\* result, each thread at its own pace.  derive_key, encrypt and decrypt own no
\* static; what a call writes are its locals, which live on the stack of the
\* thread that makes it.  thread_rng() is a generator of the calling thread.

\* nonce_bytes declared as one static array shared by all calls
NonceSlotStatic(t) == 1

\* Where the local `nonce_bytes` of an encrypt call of thread t lives: t's stack
NonceSlot(t) == t

At(t, pc) == thr[t].pc = pc

\* derive_key(&password, KeyDomain::Database, Some(salt))
ThrDeriveKey(t) ==
    /\ At(t, "idle")
    /\ \E password \in Passwords, hashOk \in BOOLEAN :
         LET r == derive_key(password, "Database", Salt1, Salt1, hashOk)
         IN  thr' = [thr EXCEPT ![t] =
                       IF r.ok
                       THEN [@ EXCEPT !.pc = "derived", !.password = password, !.key = r.val]
                       ELSE [@ EXCEPT !.pc = "failed", !.password = password, !.res = r]]
    /\ UNCHANGED <<kanVars, coreVars, strVars, fmtVars, frames>>

\* encrypt(m, &key) up to `let mut nonce_bytes = [0u8; NONCE_SIZE]`
ThrEncryptEnter(t) ==
    /\ At(t, "derived")
    /\ \E m \in Plaintexts :
         thr' = [thr EXCEPT ![t] =
                   IF Len(thr[t].key.key) # KEY_LEN
                   THEN [@ EXCEPT !.pc = "failed", !.m = m,
                            !.res = Err("EncryptionFailed", "Key must be 32 bytes", <<"key_len">>)]
                   ELSE [@ EXCEPT !.pc = "enc_rng", !.m = m]]
    /\ frames' = [frames EXCEPT ![NonceSlot(t)] = Fill(NONCE_SIZE, 0)]
    /\ UNCHANGED <<kanVars, coreVars, strVars, fmtVars>>

\* rand::thread_rng().fill_bytes(&mut nonce_bytes)
ThrEncryptRng(t) ==
    /\ At(t, "enc_rng")
    /\ \E rng \in NonceSpace :
         /\ frames' = [frames EXCEPT ![NonceSlot(t)] = rng]
         /\ thr' = [thr EXCEPT ![t] = [@ EXCEPT !.pc = "enc_aead", !.rng = rng]]
    /\ UNCHANGED <<kanVars, coreVars, strVars, fmtVars>>

\* cipher.encrypt(nonce, plaintext), nonce borrowing nonce_bytes
ThrEncryptAead(t) ==
    /\ At(t, "enc_aead")
    /\ thr' = [thr EXCEPT ![t] =
                 [@ EXCEPT !.pc = "enc_out",
                           !.ct = AeadEncrypt(thr[t].key.key, frames[NonceSlot(t)],
                                             thr[t].m)]]
    /\ UNCHANGED <<kanVars, coreVars, strVars, fmtVars, frames>>

\* result.extend_from_slice(&nonce_bytes); result.extend_from_slice(&ciphertext)
ThrEncryptReturn(t) ==
    /\ At(t, "enc_out")
    /\ thr' = [thr EXCEPT ![t] =
                 [@ EXCEPT !.pc = "encrypted", !.out = frames[NonceSlot(t)] \o thr[t].ct]]
    /\ UNCHANGED <<kanVars, coreVars, strVars, fmtVars, frames>>

\* decrypt(&out, &key)
ThrDecrypt(t) ==
    /\ At(t, "encrypted")
    /\ thr' = [thr EXCEPT ![t] =
                 [@ EXCEPT !.pc = "done", !.res = decrypt(thr[t].out, thr[t].key)]]
    /\ UNCHANGED <<kanVars, coreVars, strVars, fmtVars, frames>>

NextThr ==
    \E t \in Threads :
        \/ ThrDeriveKey(t)
        \/ ThrEncryptEnter(t)
        \/ ThrEncryptRng(t)
        \/ ThrEncryptAead(t)
        \/ ThrEncryptReturn(t)
        \/ ThrDecrypt(t)

SpecThr == Init /\ [][NextThr]_vars

(* ---- operations on secure buffers ---- *)
Room(n) == Len(heap) + n <= MaxBufs

Live(kinds) == {i \in 1..Len(heap) : heap[i].live /\ heap[i].kind \in kinds}

\* SecureString::new(value), From<String>, From<&str>
MemSecureStringNew ==
    /\ Room(1)
    /\ \E value \in Passwords :
         heap' = Append(heap, Alloc("SecureString", "password", value, <<>>))
    /\ memRes' = "new"
    /\ UNCHANGED <<kanVars, encLog, dec, keyLog, strVars, fmtVars, thrVars>>

\* SecureBytes::new(value), From<Vec<u8>>, From<&[u8]>
MemSecureBytesNew ==
    /\ Room(1)
    /\ \E value \in Plaintexts :
         heap' = Append(heap, Alloc("SecureBytes", "bytes", value, <<>>))
    /\ memRes' = "new"
    /\ UNCHANGED <<kanVars, encLog, dec, keyLog, strVars, fmtVars, thrVars>>

\* SecureBytes::zeros(len)
MemSecureBytesZeros ==
    /\ Room(1)
    /\ \E n \in 0..MaxLen :
         heap' = Append(heap, Alloc("SecureBytes", "bytes", Fill(n, 0), <<>>))
    /\ memRes' = "zeros"
    /\ UNCHANGED <<kanVars, encLog, dec, keyLog, strVars, fmtVars, thrVars>>

\* SecureBytes::random(len): rng is what thread_rng().fill_bytes wrote
MemSecureBytesRandom ==
    /\ Room(1)
    /\ \E rng \in Plaintexts :
         heap' = Append(heap, Alloc("SecureBytes", "bytes", rng, <<>>))
    /\ memRes' = "random"
    /\ UNCHANGED <<kanVars, encLog, dec, keyLog, strVars, fmtVars, thrVars>>

\* clone() of a SecureString or SecureBytes: a new allocation of the same kind
MemClone ==
    /\ Room(1)
    /\ \E i \in Live(SecureKinds) :
         heap' = Append(heap, Alloc(heap[i].kind, heap[i].role, Content(heap[i]), <<>>))
    /\ memRes' = "clone"
    /\ UNCHANGED <<kanVars, encLog, dec, keyLog, strVars, fmtVars, thrVars>>

\* a value the caller holds goes out of scope
MemDrop ==
    /\ \E i \in Live(SecureKinds \cup {"Plain"}) :
         heap' = [heap EXCEPT ![i] = drop(heap[i])]
    /\ memRes' = "drop"
    /\ UNCHANGED <<kanVars, encLog, dec, keyLog, strVars, fmtVars, thrVars>>

\* derive_key(&password, domain, salt) on a password the caller holds: the local
\* hash of derive_master_key holds the Argon2id output in a password_hash::Output, a
\* plain value that is released as it is; its bytes are copied to the Vec that
\* becomes the SecureBytes master key, released on return; the domain key lives on
\* in the DerivedKey.  When derive_master_key fails there is no output.
MemDeriveKey ==
    /\ Room(3)
    /\ \E i \in Live({"SecureString"}), domain \in KeyDomain, salt \in {NoSalt, Salt1},
          hashOk \in BOOLEAN :
         LET res == derive_key(Content(heap[i]), domain, salt, Salt2, hashOk)
             master == derive_master_key(Content(heap[i]), res.val.salt, hashOk).val
         IN  IF res.ok
             THEN /\ heap' = heap \o
                       << drop(Alloc("Plain", "argon2_output", master, <<>>)),
                          drop(Alloc("SecureBytes", "master_key", master, <<>>)),
                          Alloc("SecureBytes", "domain_key", res.val.key, <<>>) >>
                  /\ memRes' = "derive_key ok"
             ELSE /\ heap' = heap
                  /\ memRes' = res.err.kind
    /\ UNCHANGED <<kanVars, encLog, dec, keyLog, strVars, fmtVars, thrVars>>

\* The inputs of a decrypt call: a ciphertext of encrypt, as it is or with the
\* last bit of its tag inverted.
DecryptInputs ==
    {LET c == encrypt(m, key, Fill(NONCE_SIZE, 0)).val
     IN  [key |-> key, data |-> IF flip THEN FlipAt(c, Len(c), 0) ELSE c] :
        key \in GoodKeys, flip \in BOOLEAN, m \in Plaintexts}

\* What Aes256Gcm::decrypt leaves behind the plaintext in the Vec it returns: it
\* decrypts a copy of the input in place and truncates the tag off.
TagOf(data) == SubSeq(data, Len(data) - TAG_SIZE + 1, Len(data))

\* decrypt(ciphertext, key): the plaintext Vec becomes a SecureBytes
MemDecrypt ==
    /\ Room(1)
    /\ \E in \in DecryptInputs :
         LET res == decrypt(in.data, in.key)
         IN  IF res.ok
             THEN /\ heap' = Append(heap,
                         Alloc("SecureBytes", "plaintext", res.val, TagOf(in.data)))
                  /\ memRes' = "decrypt ok"
             ELSE /\ heap' = heap
                  /\ memRes' = res.err.msg
    /\ UNCHANGED <<kanVars, encLog, dec, keyLog, strVars, fmtVars, thrVars>>

\* decrypt_string(ciphertext_b64, key), from the decoded ciphertext on (b64Ok:
\* whether the base64 decoding succeeded): plaintext.to_vec() is handed to
\* String::from_utf8, which returns it as the String or inside the error; the
\* SecureBytes is released on return.  The String of a successful return is the
\* caller's; the Vec inside the error is released when the message has been made.
MemDecryptString ==
    /\ Room(2)
    /\ \E in \in DecryptInputs, b64Ok \in BOOLEAN :
         LET res == decrypt(in.data, in.key)
             plaintext == Alloc("SecureBytes", "plaintext", res.val, TagOf(in.data))
             copy == Alloc("Plain",
                           IF IsUtf8(res.val) THEN "returned_string" ELSE "utf8_copy",
                           res.val, <<>>)
         IN  IF ~b64Ok
             THEN heap' = heap /\ memRes' = "Invalid base64"
             ELSE IF ~res.ok
             THEN heap' = heap /\ memRes' = res.err.msg
             ELSE IF IsUtf8(res.val)
             THEN /\ heap' = heap \o <<drop(plaintext), copy>>
                  /\ memRes' = "decrypt_string ok"
             ELSE /\ heap' = heap \o <<drop(plaintext), drop(copy)>>
                  /\ memRes' = "Invalid UTF-8"
    /\ UNCHANGED <<kanVars, encLog, dec, keyLog, strVars, fmtVars, thrVars>>

NextMem ==
    \/ MemSecureStringNew
    \/ MemSecureBytesNew
    \/ MemSecureBytesZeros
    \/ MemSecureBytesRandom
    \/ MemClone
    \/ MemDrop
    \/ MemDeriveKey
    \/ MemDecrypt
    \/ MemDecryptString

SpecMem == Init /\ [][NextMem]_vars

NextEnc == DoEncrypt

SpecEnc == Init /\ [][NextEnc]_vars

NextCipher ==
    \/ DoEncryptFirst
    \/ DoDecrypt
    \/ DoDecryptTampered
    \/ DoDecryptTruncated
    \/ DoDecryptZeros

SpecCipher == Init /\ [][NextCipher]_vars

(* ---- the kanban board: operations ---- *)
\* The clock is read by the operations that write; it moves on after each of them.
Tick(r) == IF r.db # db THEN clock + 1 ELSE clock

DoUpdateTaskStatus ==
    /\ clock < MaxClock
    /\ \E t \in BoardTasks, s \in TaskStatus :
          LET r == update_task_status(db, clock, t, s, "cli") IN
          /\ db' = r.db
          /\ clock' = Tick(r)
          /\ kres' = [NoCall EXCEPT !.op = "update_task_status", !.task_id = t,
                          !.old_status = StatusOf(db, t), !.new_status = s,
                          !.changed_by = "cli", !.ok = r.ok, !.err = r.err]
    /\ UNCHANGED <<app, coreVars, strVars, fmtVars, thrVars>>

DoAddBlocker ==
    /\ clock < MaxClock
    /\ Len(db.blockers) < MaxBlockers
    /\ \E t \in BoardTasks :
          LET r == add_blocker(db, clock, t) IN
          /\ db' = r.db
          /\ clock' = Tick(r)
          /\ kres' = [NoCall EXCEPT !.op = "add_blocker", !.task_id = t,
                          !.blocker_id = Len(db.blockers) + 1,
                          !.old_status = StatusOf(db, t),
                          !.changed_by = "system", !.ok = r.ok, !.err = r.err]
    /\ UNCHANGED <<app, coreVars, strVars, fmtVars, thrVars>>

DoResolveBlocker ==
    /\ clock < MaxClock
    /\ \E b \in 1..Len(db.blockers) :
          LET r == resolve_blocker(db, clock, b) IN
          /\ db' = r.db
          /\ clock' = Tick(r)
          /\ kres' = [NoCall EXCEPT !.op = "resolve_blocker",
                          !.task_id = db.blockers[b].task_id, !.blocker_id = b,
                          !.old_status = StatusOf(db, db.blockers[b].task_id),
                          !.changed_by = "system", !.ok = r.ok, !.err = r.err]
    /\ UNCHANGED <<app, coreVars, strVars, fmtVars, thrVars>>

DoEscalateBlocker ==
    /\ clock < MaxClock
    /\ \E b \in 1..Len(db.blockers) :
          LET r == escalate_blocker(db, clock, b) IN
          /\ db' = r.db
          /\ clock' = Tick(r)
          /\ kres' = [NoCall EXCEPT !.op = "escalate_blocker",
                          !.task_id = db.blockers[b].task_id, !.blocker_id = b,
                          !.old_status = StatusOf(db, db.blockers[b].task_id),
                          !.ok = r.ok, !.err = r.err]
    /\ UNCHANGED <<app, coreVars, strVars, fmtVars, thrVars>>

NextBoard == DoUpdateTaskStatus \/ DoAddBlocker \/ DoResolveBlocker \/ DoEscalateBlocker

SpecBoard == Init /\ [][NextBoard]_vars

(* ---- the task dependencies ---- *)
Graphs == SUBSET (TaskIds \X TaskIds)

\* The database as the program finds it: create_task inserts the dependencies of its
\* request unchecked, so the graph the first add_task_dependency meets is any graph.
DoOpenDatabase ==
    /\ kres = NoCall
    /\ db = EmptyDb
    /\ \E g \in Graphs \ {{}} : db' = [db EXCEPT !.deps = g]
    /\ kres' = [NoCall EXCEPT !.op = "open"]
    /\ UNCHANGED <<clock, app, coreVars, strVars, fmtVars, thrVars>>

DoAddTaskDependency ==
    \E t \in TaskIds \cup {UnknownTask}, d \in TaskIds \cup {UnknownTask} :
       LET r == add_task_dependency(db, t, d) IN
       /\ db' = r.db
       /\ kres' = [NoCall EXCEPT !.op = "add_task_dependency", !.task_id = t,
                       !.depends_on = d, !.ok = r.ok, !.err = r.err,
                       !.steps = IF get_task(db, t).ok /\ get_task(db, d).ok
                                 THEN would_create_cycle(db, t, d).steps ELSE 0]
       /\ UNCHANGED <<clock, app, coreVars, strVars, fmtVars, thrVars>>

NextDeps == DoOpenDatabase \/ DoAddTaskDependency

SpecDeps == Init /\ [][NextDeps]_vars

(* ---- the board view ---- *)
\* The task under the cursor is any task of app.tasks: the navigation keys reach each.
KeyCall(op, t, from, to, r) ==
    [NoCall EXCEPT !.op = op, !.task_id = t, !.old_status = from, !.new_status = to,
                   !.changed_by = "tui", !.ok = r.ok, !.err = r.err]

\* What a handler does with the result of its update_task_status call.
AfterUpdate(r, message) ==
    IF r.ok THEN [tasks |-> list_tasks(r.db), status_message |-> message]
    ELSE [app EXCEPT !.status_message = "Error: " \o r.err.kind \o ": " \o r.err.msg]

PressM ==
    /\ clock < MaxClock
    /\ \E t \in BoardTasks :
          LET task == app.tasks[t]
              valid == valid_transitions(task.status)
          IN IF valid # <<>>
             THEN LET next_status == Head(valid)
                      r == update_task_status(db, clock, task.id, next_status, "tui")
                  IN /\ db' = r.db
                     /\ clock' = Tick(r)
                     /\ app' = AfterUpdate(r,
                                   "Moved to " \o TaskStatus_as_str(next_status))
                     /\ kres' = KeyCall("key_m", t, task.status, next_status, r)
             ELSE /\ app' = [app EXCEPT
                        !.status_message = "No valid transitions from this state"]
                  /\ kres' = KeyCall("key_m", t, task.status, "", DbOk(db))
                  /\ UNCHANGED <<db, clock>>
    /\ UNCHANGED <<coreVars, strVars, fmtVars, thrVars>>

PressP ==
    /\ clock < MaxClock
    /\ \E t \in BoardTasks :
          LET task == app.tasks[t] IN
          IF can_transition(task.status, "InProgress")
          THEN LET r == update_task_status(db, clock, task.id, "InProgress", "tui")
               IN /\ db' = r.db
                  /\ clock' = Tick(r)
                  /\ app' = AfterUpdate(r, "Moved to in-progress")
                  /\ kres' = KeyCall("key_p", t, task.status, "InProgress", r)
          ELSE /\ app' = [app EXCEPT !.status_message =
                             "Cannot move to in-progress from current state"]
               /\ kres' = KeyCall("key_p", t, task.status, "", DbOk(db))
               /\ UNCHANGED <<db, clock>>
    /\ UNCHANGED <<coreVars, strVars, fmtVars, thrVars>>

PressD ==
    /\ clock < MaxClock
    /\ \E t \in BoardTasks :
          LET task == app.tasks[t] IN
          IF can_transition(task.status, "Done")
          THEN LET r == update_task_status(db, clock, task.id, "Done", "tui")
               IN /\ db' = r.db
                  /\ clock' = Tick(r)
                  /\ app' = AfterUpdate(r, "Marked as done")
                  /\ kres' = KeyCall("key_d", t, task.status, "Done", r)
          ELSE /\ app' = [app EXCEPT !.status_message =
                             "Cannot mark as done from current state"]
               /\ kres' = KeyCall("key_d", t, task.status, "", DbOk(db))
               /\ UNCHANGED <<db, clock>>
    /\ UNCHANGED <<coreVars, strVars, fmtVars, thrVars>>

NextTui == PressM \/ PressP \/ PressD

SpecTui == Init /\ [][NextTui]_vars

(* ==================== properties of the kanban board ==================== *)
\* The edges of the workflow, as pairs <<from, to>>.
AllowedEdges ==
    {<<"Todo", "InProgress">>,
     <<"InProgress", "Todo">>, <<"InProgress", "Blocked">>, <<"InProgress", "InQa">>,
     <<"Blocked", "Todo">>, <<"Blocked", "InProgress">>,
     <<"InQa", "InProgress">>, <<"InQa", "Done">>}

\* C21: every step of update_task_status, add_blocker and resolve_blocker that changes
\* a task's status changes it along an allowed edge; and update_task_status called
\* with any other (current, new) pair, new = current included, returns an
\* InvalidTransition error and leaves the rows of the tasks (status, started_at,
\* completed_at, updated_at) as they were.
C21_AllowedEdges ==
    [][/\ \A t \in TaskIds :
             StatusOf(db, t) # StatusOf(db', t)
                 => <<StatusOf(db, t), StatusOf(db', t)>> \in AllowedEdges
       /\ (/\ kres'.op = "update_task_status"
           /\ kres'.old_status = StatusOf(db, kres'.task_id)
           /\ <<kres'.old_status, kres'.new_status>> \notin AllowedEdges)
              => /\ ~kres'.ok
                 /\ kres'.err.kind = "InvalidTransition"
                 /\ db'.tasks = db.tasks]_vars

\* A call with new = current was rejected, after the task had moved before.
C21_Witness ==
    /\ kres.op = "update_task_status"
    /\ ~kres.ok
    /\ kres.err.kind = "InvalidTransition"
    /\ kres.old_status = kres.new_status
    /\ kres.old_status = "InQa"

\* C22: Done is terminal: a task whose status is Done has status Done after every
\* step of update_task_status, add_blocker, resolve_blocker and escalate_blocker.
C22_DoneIsTerminal ==
    [][\A t \in TaskIds : StatusOf(db, t) = "Done" => StatusOf(db', t) = "Done"]_vars

\* A blocker of a Done task was resolved, and an update of a Done task was tried.
C22_Witness ==
    /\ kres.old_status = "Done"
    /\ StatusOf(db, kres.task_id) = "Done"
    /\ kres.op \in {"resolve_blocker", "update_task_status"}
    /\ \E i \in 1..Len(db.blockers) :
          db.blockers[i].task_id = kres.task_id /\ db.blockers[i].status = "resolved"

\* C23: a step of add_blocker appends one blocker of the task in status active and
\* leaves the other blockers alone; the task becomes Blocked if it was InProgress
\* and keeps its status otherwise, and no other task changes.
C23_AddBlockerAutoBlocks ==
    [][(kres'.op = "add_blocker" /\ kres'.blocker_id = Len(db.blockers) + 1)
          => LET t == kres'.task_id IN
             /\ kres'.ok
             /\ Len(db'.blockers) = Len(db.blockers) + 1
             /\ SubSeq(db'.blockers, 1, Len(db.blockers)) = db.blockers
             /\ db'.blockers[Len(db'.blockers)].task_id = t
             /\ db'.blockers[Len(db'.blockers)].status = "active"
             /\ StatusOf(db', t) =
                    (IF StatusOf(db, t) = "InProgress" THEN "Blocked"
                     ELSE StatusOf(db, t))
             /\ \A u \in TaskIds \ {t} : db'.tasks[u] = db.tasks[u]]_vars

\* A blocker was added to an InProgress task, which is Blocked now, while a task
\* that was not InProgress has an active blocker and is not Blocked.
C23_Witness ==
    /\ kres.op = "add_blocker"
    /\ kres.old_status = "InProgress"
    /\ StatusOf(db, kres.task_id) = "Blocked"
    /\ \E i \in 1..Len(db.blockers) :
          /\ db.blockers[i].status = "active"
          /\ db.blockers[i].task_id # kres.task_id
          /\ StatusOf(db, db.blockers[i].task_id) \in {"Todo", "InQa", "Done"}

\* C24: a step of resolve_blocker marks the blocker resolved and leaves the other
\* blockers alone; the task goes from Blocked to InProgress exactly when no blocker
\* of it is left in status active and its status is Blocked, and keeps its status
\* otherwise, so it stays Blocked while another of its blockers is active.
C24_ResolveAutoUnblocks ==
    [][(kres'.op = "resolve_blocker" /\ kres'.blocker_id \in 1..Len(db.blockers))
          => LET b == kres'.blocker_id
                 t == db.blockers[b].task_id
             IN /\ kres'.ok
                /\ Len(db'.blockers) = Len(db.blockers)
                /\ db'.blockers[b].status = "resolved"
                /\ \A i \in 1..Len(db.blockers) : i # b => db'.blockers[i] = db.blockers[i]
                /\ StatusOf(db', t) =
                      (IF active_count(db', t) = 0 /\ StatusOf(db, t) = "Blocked"
                       THEN "InProgress" ELSE StatusOf(db, t))
                /\ \A u \in TaskIds \ {t} : db'.tasks[u] = db.tasks[u]]_vars

\* The second of two blockers of a task was resolved and the task went back to
\* InProgress; resolving the first had left it Blocked.
C24_Witness ==
    /\ kres.op = "resolve_blocker"
    /\ kres.old_status = "Blocked"
    /\ StatusOf(db, kres.task_id) = "InProgress"
    /\ Len(db.blockers) = 2
    /\ \A i \in 1..2 :
          db.blockers[i].task_id = kres.task_id /\ db.blockers[i].status = "resolved"
    /\ Len(db.history) = 3

\* A blocker was resolved while another blocker of the task is active: still Blocked.
C24_WitnessStays ==
    /\ kres.op = "resolve_blocker"
    /\ kres.old_status = "Blocked"
    /\ StatusOf(db, kres.task_id) = "Blocked"
    /\ active_count(db, kres.task_id) = 1

\* The task_history rows that record a status change of task t, in insertion order.
StatusRecords(d, t) ==
    SelectSeq(d.history, LAMBDA h : h.task_id = t /\ h.field_changed = "status")

WasInProgress(d, t) ==
    \E i \in 1..Len(StatusRecords(d, t)) :
       StatusRecords(d, t)[i].new_value = "in-progress"

\* C25: in every reachable state a Done task has started_at and completed_at set and
\* a task that was never InProgress has neither; and in every step, a task that
\* enters InProgress with no started_at gets the time of the step as started_at, a
\* started_at that is set is never changed, and a task that enters Done gets the
\* time of the step as completed_at.
C25_TimestampsFollowStatus ==
    /\ [](\A t \in TaskIds :
            /\ StatusOf(db, t) = "Done"
                  => db.tasks[t].started_at # NoTime /\ db.tasks[t].completed_at # NoTime
            /\ ~WasInProgress(db, t)
                  => db.tasks[t].started_at = NoTime /\ db.tasks[t].completed_at = NoTime)
    /\ [][\A t \in TaskIds :
            /\ db.tasks[t].started_at # NoTime
                  => db'.tasks[t].started_at = db.tasks[t].started_at
            /\ (/\ StatusOf(db', t) = "InProgress"
                /\ StatusOf(db, t) # "InProgress"
                /\ db.tasks[t].started_at = NoTime)
                  => db'.tasks[t].started_at = clock
            /\ (StatusOf(db', t) = "Done" /\ StatusOf(db, t) # "Done")
                  => db'.tasks[t].completed_at = clock]_vars

\* A task that entered InProgress twice is Done: its started_at is the time of the
\* first entry, its completed_at the later time of the last step.
C25_Witness ==
    \E t \in TaskIds :
       /\ StatusOf(db, t) = "Done"
       /\ Len(SelectSeq(StatusRecords(db, t),
                        LAMBDA h : h.new_value = "in-progress")) = 2
       /\ db.tasks[t].started_at = StatusRecords(db, t)[1].changed_at
       /\ db.tasks[t].completed_at > db.tasks[t].started_at + 3

\* The tasks whose status a step changes.
Moved == {t \in TaskIds : StatusOf(db', t) # StatusOf(db, t)}

\* C26: a step in which update_task_status succeeds, called directly or by
\* add_blocker and resolve_blocker as "system", appends exactly one task_history row,
\* with field "status", the old and the new status, the caller and the time; a step
\* in which no status changes, a rejected transition included, appends none. So in
\* every reachable state the status rows of each task, in insertion order, form a
\* chain: the first starts at "todo", each starts where the one before ended, and
\* the last ends at the status stored for the task.
C26_HistoryIsAuditTrail ==
    /\ [](\A t \in TaskIds :
            LET recs == StatusRecords(db, t) IN
            /\ recs = <<>> => db.tasks[t].status = "todo"
            /\ recs # <<>> =>
                  /\ recs[1].old_value = "todo"
                  /\ \A i \in 1..(Len(recs) - 1) : recs[i + 1].old_value = recs[i].new_value
                  /\ recs[Len(recs)].new_value = db.tasks[t].status)
    /\ [][/\ Moved = {} => db'.history = db.history
          /\ \A t \in Moved :
                /\ Moved = {t}
                /\ kres'.ok
                /\ db'.history = Append(db.history,
                      [task_id |-> t, field_changed |-> "status",
                       old_value |-> TaskStatus_as_str(StatusOf(db, t)),
                       new_value |-> TaskStatus_as_str(StatusOf(db', t)),
                       changed_by |-> kres'.changed_by, changed_at |-> clock])]_vars

\* A transition was just rejected for a task whose history holds rows written for
\* the caller and rows written for "system".
C26_Witness ==
    /\ kres.op = "update_task_status"
    /\ kres.err.kind = "InvalidTransition"
    /\ LET recs == StatusRecords(db, kres.task_id) IN
       /\ Len(recs) >= 3
       /\ \E i \in 1..Len(recs) : recs[i].changed_by = "system"
       /\ \E i \in 1..Len(recs) : recs[i].changed_by = "cli"

(* ================ properties of the task dependencies ================ *)
\* The tasks that t depends on, directly or through other tasks, in graph g.
RECURSIVE ReachFrom(_, _)
ReachFrom(g, S) ==
    LET T == S \cup {e[2] : e \in {e \in g : e[1] \in S}}
    IN IF T = S THEN S ELSE ReachFrom(g, T)

DependsOn(g, t) == ReachFrom(g, {e[2] : e \in {e \in g : e[1] = t}})

Acyclic(g) == \A t \in TaskIds : t \notin DependsOn(g, t)

\* C29: a step of add_task_dependency between existing tasks whose edge would close
\* a cycle in an acyclic graph, a task depending on itself included, returns a
\* Dependency error and leaves the graph as it was; an accepted call adds just its
\* edge, and an acyclic graph is acyclic after the step.  The cycle search ends on
\* every graph, cyclic ones included, after at most one iteration for the start and
\* one for every edge.
C29_StaysAcyclic ==
    /\ [][kres'.op = "add_task_dependency" =>
            LET t == kres'.task_id
                d == kres'.depends_on
                closes == ~Acyclic(db.deps \cup {<<t, d>>})
            IN /\ (Acyclic(db.deps) /\ t \in TaskIds /\ d \in TaskIds /\ closes)
                     => ~kres'.ok /\ kres'.err.kind = "Dependency" /\ db'.deps = db.deps
               /\ kres'.ok => db'.deps = db.deps \cup {<<t, d>>}
               /\ ~kres'.ok => db'.deps = db.deps
               /\ Acyclic(db.deps) => Acyclic(db'.deps)]_vars
    /\ [](kres.op = "add_task_dependency" => kres.steps <= 1 + Cardinality(db.deps))

\* A call was rejected because its edge would close a cycle through a third task.
C29_Witness ==
    /\ kres.op = "add_task_dependency"
    /\ kres.err.kind = "Dependency"
    /\ Acyclic(db.deps)
    /\ kres.task_id # kres.depends_on
    /\ <<kres.depends_on, kres.task_id>> \notin db.deps

\* A task was asked to depend on itself.
C29_WitnessSelf ==
    /\ kres.op = "add_task_dependency"
    /\ kres.err.kind = "Dependency"
    /\ kres.task_id = kres.depends_on

\* The search ran on a graph with a cycle and ended.
C29_WitnessCyclic ==
    /\ kres.op = "add_task_dependency"
    /\ ~Acyclic(db.deps)
    /\ kres.steps > 3

(* ==================== properties of the board view ==================== *)
\* The place of a status in the workflow Todo -> InProgress -> InQa -> Done.
WorkflowRank(s) ==
    CASE s = "Todo" -> 1
      [] s = "InProgress" -> 2
      [] s = "InQa" -> 3
      [] s = "Done" -> 4
      [] OTHER -> 0

\* C30: a press of 'm' that changes the selected task, the task not being Blocked,
\* puts it in a status further along the workflow than the one it had.
C30_MKeyMovesForward ==
    (/\ kres.op = "key_m"
     /\ kres.ok
     /\ kres.new_status # ""
     /\ kres.old_status # "Blocked")
        => WorkflowRank(kres.new_status) > WorkflowRank(kres.old_status)

(* ======================= properties of the cipher ======================= *)
NonceOf(e) == SubSeq(e.res.val, 1, NONCE_SIZE)

EncOk == {i \in 1..Len(encLog) : encLog[i].res.ok}

Called == dec.src >= 0

\* The decrypt call was given the ciphertext of the recorded encrypt call unchanged.
Unchanged == dec.src > 0 /\ dec.pos = 0 /\ dec.cut = -1

Source == encLog[dec.src]

\* C2: round trip: decrypt(encrypt(m, k), k) succeeds and returns exactly m, for
\* every plaintext m (the empty one included) and every key k of derive_key.
C2_RoundTrip ==
    (Unchanged /\ dec.key = Source.key) =>
        (dec.res.ok /\ dec.res.val = Source.m)

C2_Witness ==
    /\ Unchanged
    /\ dec.key = Source.key
    /\ Source.m # <<>>
    /\ dec.res.ok
    /\ dec.res.val = Source.m

C2_WitnessEmpty ==
    /\ Unchanged
    /\ dec.key = Source.key
    /\ Source.m = <<>>
    /\ dec.res.ok

\* C3: tamper detection: with one bit of the encrypted payload or of the tag of
\* c = encrypt(m, k) inverted, decrypt(c', k) returns an error and no plaintext.
C3_TamperDetected ==
    (dec.src > 0 /\ dec.pos > NONCE_SIZE) => (~dec.res.ok /\ dec.res.val = <<>>)

C3_Witness ==
    /\ dec.src > 0
    /\ dec.key = Source.key
    /\ Source.m # <<>>
    /\ dec.pos = NONCE_SIZE + 1
    /\ ~dec.res.ok

\* The decrypt call reached the AEAD and the AEAD refused the input.
AeadRefused ==
    /\ Called
    /\ ~dec.res.ok
    /\ Len(dec.data) >= 28
    /\ Len(dec.key.key) = 32

\* C4: every authentication failure returns one and the same error value, whatever
\* made the AEAD refuse: another key, an altered nonce, an altered payload or tag.
C4_OneAuthError ==
    AeadRefused =>
        dec.res.err = [kind |-> "DecryptionFailed",
                       msg |-> "Decryption failed - invalid key or corrupted data"]

\* a wrong key on an unchanged ciphertext
C4_Witness ==
    /\ Unchanged
    /\ dec.key # Source.key
    /\ AeadRefused
    /\ dec.res.err.msg = "Decryption failed - invalid key or corrupted data"

\* the right key on a ciphertext whose nonce was altered
C4_WitnessNonce ==
    /\ dec.src > 0
    /\ dec.pos \in 1..NONCE_SIZE
    /\ dec.key = Source.key
    /\ AeadRefused

\* C5: wrong-key rejection: decrypt(encrypt(m, k1), k2) returns an error whenever
\* the key bytes of k1 and k2 differ.
C5_WrongKeyRejected ==
    (Unchanged /\ dec.key.key # Source.key.key) => ~dec.res.ok

C5_Witness ==
    /\ Unchanged
    /\ dec.key.key # Source.key.key
    /\ Len(dec.key.key) = 32
    /\ ~dec.res.ok

\* C6: decrypt of fewer than 28 bytes fails with "Ciphertext too short"; the
\* length check is the first step (no key-length check, no AEAD call before it);
\* an input of exactly 28 bytes passes the length check.
C6_TooShortFirst ==
    /\ (Called /\ Len(dec.data) < 28) =>
          /\ ~dec.res.ok
          /\ dec.res.err = [kind |-> "DecryptionFailed", msg |-> "Ciphertext too short"]
          /\ dec.res.steps = <<"len">>
    /\ (Called /\ Len(dec.data) >= 28) =>
          /\ dec.res.err.msg # "Ciphertext too short"
          /\ Len(dec.res.steps) > 1
          /\ dec.res.steps[1] = "len"

\* 27 bytes and a key of the wrong length: the length of the input is reported
C6_Witness ==
    /\ Called
    /\ Len(dec.data) = 27
    /\ Len(dec.key.key) # 32
    /\ dec.res.err.msg = "Ciphertext too short"

C6_Witness28 ==
    /\ Called
    /\ Len(dec.data) = 28
    /\ dec.res.ok

\* C7: a successful encrypt(m, k) returns Len(m) + 28 bytes: the nonce of the call
\* (12), the encrypted payload (Len(m)), the tag (16); decrypt splits at offset 12.
C7_Layout ==
    \A i \in EncOk :
        LET e == encLog[i]
            out == e.res.val
            n == Len(e.m)
        IN  /\ Len(out) = n + 28
            /\ SubSeq(out, 1, 12) = e.rng
            /\ SubSeq(out, 13, 12 + n) = AeadBody(e.key.key, e.rng, e.m)
            /\ SubSeq(out, 13 + n, n + 28) =
                  AeadTag(e.key.key, e.rng, AeadBody(e.key.key, e.rng, e.m))
            /\ split_nonce(out) = <<e.rng, AeadEncrypt(e.key.key, e.rng, e.m)>>

C7_Witness ==
    \E i \in EncOk : encLog[i].m # <<>> /\ Len(encLog[i].res.val) = Len(encLog[i].m) + 28

\* C14: encrypt with a key that is not exactly 32 bytes fails with
\* EncryptionFailed before any cryptographic work: no nonce is drawn, the AEAD
\* is not invoked and no output is produced.
C14_BadKeyFailsFast ==
    \A n \in 1..Len(encLog) :
        Len(encLog[n].key.key) # 32 =>
            /\ ~encLog[n].res.ok
            /\ encLog[n].res.err.kind = "EncryptionFailed"
            /\ encLog[n].res.steps = <<"key_len">>
            /\ encLog[n].res.val = <<>>

\* a 31-byte key after a successful call: the second call fails at its first step
C14_Witness ==
    /\ Len(encLog) = 2
    /\ encLog[1].res.ok
    /\ Len(encLog[2].key.key) = 31
    /\ encLog[2].m # <<>>
    /\ encLog[2].res.err.msg = "Key must be 32 bytes"

(* ================== properties of the string interface ================== *)
StrCalled == strDec.src >= 0

\* What decrypt returns for the bytes the text of the decrypt_string call encodes
StrInner == decrypt(b64decode(strDec.text).val, strDec.key)

\* The decrypt_string call failed in its UTF-8 validation
Utf8Failed == StrCalled /\ ~strDec.res.ok /\ strDec.res.steps[Len(strDec.res.steps)] = "utf8"

\* C15: in decrypt_string the UTF-8 validation comes strictly after the AEAD
\* check: a ciphertext that fails authentication returns the authentication
\* failure, never an invalid UTF-8 error; the two are different error values.
C15_Utf8AfterAead ==
    /\ (StrCalled /\ b64decode(strDec.text).ok /\ ~StrInner.ok) =>
          /\ ~strDec.res.ok
          /\ strDec.res.err = StrInner.err
          /\ \A n \in 1..Len(strDec.res.steps) : strDec.res.steps[n] # "utf8"
    /\ (StrCalled /\ \E n \in 1..Len(strDec.res.steps) : strDec.res.steps[n] = "utf8") =>
          /\ StrInner.ok
          /\ \E n \in 1..(Len(strDec.res.steps) - 1) : strDec.res.steps[n] = "aead"
          /\ strDec.res.steps[Len(strDec.res.steps)] = "utf8"
    /\ Utf8Failed => strDec.res.err # AuthFailed

\* bytes that are no UTF-8, their ciphertext altered: the authentication failure
C15_Witness ==
    /\ StrCalled
    /\ strDec.src = 1
    /\ strEnc[1].m = Bytes(<<255>>)
    /\ strDec.key = strEnc[1].key
    /\ strDec.pos = NONCE_SIZE + 1
    /\ strDec.res.err = AuthFailed

\* the same bytes, their ciphertext as it is: the invalid UTF-8 error
C15_WitnessUtf8 ==
    /\ Utf8Failed
    /\ strEnc[1].m = Bytes(<<255>>)
    /\ strDec.pos = 0

\* C16: string round trip: decrypt_string(encrypt_string(s, k), k) succeeds and
\* returns exactly s, for every text s (non-ASCII and empty included) and key k.
C16_StringRoundTrip ==
    (/\ StrCalled
     /\ strDec.src = 1
     /\ strDec.pos = 0
     /\ strEnc[1].api = "encrypt_string"
     /\ strDec.key = strEnc[1].key) => (strDec.res.ok /\ strDec.res.val = strEnc[1].m)

\* "h\u00e9"
C16_Witness ==
    /\ StrCalled
    /\ strDec.src = 1
    /\ strDec.pos = 0
    /\ strEnc[1].api = "encrypt_string"
    /\ strEnc[1].m = Bytes(<<104, 195, 169>>)
    /\ strDec.key = strEnc[1].key
    /\ strDec.res.ok
    /\ strDec.res.val = Bytes(<<104, 195, 169>>)

\* the empty text
C16_WitnessEmpty ==
    /\ StrCalled
    /\ strDec.src = 1
    /\ strDec.pos = 0
    /\ strEnc[1].api = "encrypt_string"
    /\ strEnc[1].m = <<>>
    /\ strDec.key = strEnc[1].key
    /\ strDec.res.ok
    /\ strDec.res.val = <<>>

\* The decrypt_string call the recorded one becomes when the plaintext under its
\* text is replaced by m2: same key, same nonce, same length, other content.
PlaintextTwin(m2) ==
    decrypt_string(b64encode(encrypt(m2, strEnc[1].key, strEnc[1].rng).val), strDec.key)

\* C18: no error carries secret material: the error value (kind and description)
\* of a failed call is the same in any two runs that differ only in the content
\* of the plaintext.  Stated for encrypt_string and decrypt_string.
C18_ErrorsCarryNoSecret ==
    /\ \A n \in 1..Len(strEnc) :
          (strEnc[n].api = "encrypt_string" /\ ~strEnc[n].res.ok) =>
              \A s2 \in Strings :
                  encrypt_string(s2, strEnc[n].key, strEnc[n].rng).err = strEnc[n].res.err
    /\ (StrCalled /\ strDec.src = 1 /\ strDec.pos = 0 /\ ~strDec.res.ok) =>
          \A m2 \in Strings \cup RawTexts :
              (Len(m2) = Len(strEnc[1].m) /\ ~PlaintextTwin(m2).ok) =>
                  PlaintextTwin(m2).err = strDec.res.err

(* =================== properties of the key derivation =================== *)
KeyOk == {i \in 1..Len(keyLog) : keyLog[i].res.ok}

KeyBytes(i) == keyLog[i].res.val.key

MasterOf(i) == Argon2id(keyLog[i].password, keyLog[i].res.val.salt)

HashInput(i) == MasterOf(i) \o as_str(keyLog[i].domain)

\* C10: domain separation: under one password and salt the keys of two different
\* domains differ; the identifiers are pairwise distinct and the concatenation
\* master key, identifier determines both of its parts.
C10_DomainSeparation ==
    /\ \A d1, d2 \in KeyDomain : d1 # d2 => as_str(d1) # as_str(d2)
    /\ \A i, j \in KeyOk :
         /\ (/\ keyLog[i].password = keyLog[j].password
             /\ keyLog[i].res.val.salt = keyLog[j].res.val.salt
             /\ keyLog[i].domain # keyLog[j].domain) => KeyBytes(i) # KeyBytes(j)
         /\ HashInput(i) = HashInput(j) =>
               (MasterOf(i) = MasterOf(j) /\ keyLog[i].domain = keyLog[j].domain)

C10_Witness ==
    \E i, j \in KeyOk :
        /\ keyLog[i].password = keyLog[j].password
        /\ keyLog[i].res.val.salt = keyLog[j].res.val.salt
        /\ keyLog[i].domain = "Config"
        /\ keyLog[j].domain = "Backup"
        /\ KeyBytes(i) # KeyBytes(j)

\* C11: password sensitivity: under one domain and one salt, derive_key returns
\* different key bytes for two different passwords.
C11_PasswordSensitive ==
    \A i, j \in KeyOk :
        (/\ keyLog[i].password # keyLog[j].password
         /\ keyLog[i].domain = keyLog[j].domain
         /\ keyLog[i].res.val.salt = keyLog[j].res.val.salt) => KeyBytes(i) # KeyBytes(j)

C11_Witness ==
    \E i, j \in KeyOk :
        /\ keyLog[i].password # keyLog[j].password
        /\ keyLog[i].domain = keyLog[j].domain
        /\ keyLog[i].salt = Salt1
        /\ keyLog[j].salt = Salt1
        /\ KeyBytes(i) # KeyBytes(j)

\* C12: derive_key uses a supplied salt as it is and generates one (16 bytes) only
\* when none is supplied; the DerivedKey reports the salt that entered the
\* password hash and the requested domain, so deriving again with the reported
\* salt, the same password and the same domain returns the same key.
C12_SaltVerbatim ==
    \A i \in KeyOk :
        LET c == keyLog[i]
            k == c.res.val
        IN  /\ c.salt # NoSalt => k.salt = c.salt
            /\ c.salt = NoSalt => k.salt = c.rng
            /\ Len(k.salt) = 16
            /\ k.domain = c.domain
            /\ k.key = derive_domain_key(Argon2id(c.password, k.salt), c.domain)
            /\ \A j \in KeyOk :
                  (/\ keyLog[j].salt = k.salt
                   /\ keyLog[j].password = c.password
                   /\ keyLog[j].domain = c.domain) => KeyBytes(j) = k.key

\* a key derived with a generated salt, derived again with the salt it reported
C12_Witness ==
    \E i, j \in KeyOk :
        /\ i < j
        /\ keyLog[i].salt = NoSalt
        /\ keyLog[j].salt = keyLog[i].res.val.salt
        /\ keyLog[j].password = keyLog[i].password
        /\ keyLog[j].domain = keyLog[i].domain
        /\ KeyBytes(j) = KeyBytes(i)

\* C13: every DerivedKey holds exactly 32 key bytes and a 16-byte salt; no
\* operation changes a DerivedKey once derive_key has returned it; the "Key must
\* be 32 bytes" checks of encrypt and decrypt never fail for a key of derive_key.
C13_KeyIs32Bytes ==
    /\ [](/\ \A i \in KeyOk : /\ Len(as_bytes(keyLog[i].res.val)) = 32
                             /\ Len(salt_of(keyLog[i].res.val)) = 16
           /\ \A n \in 1..Len(encLog) : encLog[n].res.err.msg # "Key must be 32 bytes"
           /\ Called => dec.res.err.msg # "Key must be 32 bytes")
    /\ [][\A i \in 1..Len(keyLog) : keyLog'[i] = keyLog[i]]_vars

C13_Witness ==
    /\ KeyOk # {}
    /\ Len(encLog) = 1
    /\ encLog[1].key = keyLog[1].res.val
    /\ encLog[1].res.ok
    /\ Called
    /\ dec.key = keyLog[1].res.val
    /\ dec.res.ok

(* ================= properties of the error classification ================= *)
\* The errors the calls recorded returned, as the Error values the caller gets
ReturnedErrors ==
    {ErrorEncryption(keyLog[i].res.err) : i \in {j \in 1..Len(keyLog) : ~keyLog[j].res.ok}}
    \cup {ErrorEncryption(encLog[i].res.err) : i \in {j \in 1..Len(encLog) : ~encLog[j].res.ok}}
    \cup (IF Called /\ ~dec.res.ok THEN {ErrorEncryption(dec.res.err)} ELSE {})

\* C19: every error derive_key, encrypt and decrypt return (KeyDerivationFailed,
\* EncryptionFailed, DecryptionFailed) is classified as recoverable by
\* Error::is_recoverable.
C19_ErrorsRecoverable == \A e \in ReturnedErrors : is_recoverable(e)

(* ==================== properties of concurrent calls ==================== *)
HasKey(t) == thr[t].pc \in {"derived", "enc_rng", "enc_aead", "enc_out", "encrypted", "done"}

\* C20: derive_key, encrypt and decrypt hold no shared mutable state: in every
\* interleaving of the threads' calls each call returns what it returns when run
\* alone on the same inputs (each ciphertext decrypts to its own plaintext), and
\* a step of one thread changes nothing of another thread.
C20_NoSharedState ==
    /\ [](\A t \in Threads :
            /\ HasKey(t) =>
                  thr[t].key = derive_key(thr[t].password, "Database", Salt1, Salt1, TRUE).val
            /\ thr[t].pc \in {"encrypted", "done"} =>
                  thr[t].out = encrypt(thr[t].m, thr[t].key, thr[t].rng).val
            /\ thr[t].pc = "done" =>
                  /\ thr[t].res = decrypt(encrypt(thr[t].m, thr[t].key, thr[t].rng).val,
                                          thr[t].key)
                  /\ thr[t].res.ok
                  /\ thr[t].res.val = thr[t].m)
    /\ [][\E t \in Threads : \A u \in Threads \ {t} :
              thr'[u] = thr[u] /\ frames'[u] = frames[u]]_vars

\* both threads inside encrypt at once, under the same key, between drawing
\* their nonces and using them
C20_Witness ==
    /\ thr[1].pc = "enc_aead"
    /\ thr[2].pc = "enc_aead"
    /\ thr[1].key = thr[2].key
    /\ thr[1].rng # thr[2].rng
    /\ thr[1].m # thr[2].m

\* both calls chains finished, each with its own plaintext back
C20_WitnessDone ==
    /\ \A t \in Threads : thr[t].pc = "done" /\ thr[t].res.val = thr[t].m
    /\ thr[1].key = thr[2].key
    /\ thr[1].m # thr[2].m
    /\ thr[1].out # thr[2].out

(* ==================== properties of the Debug formatting ==================== *)
\* needle occurs in hay as a contiguous run of bytes
Contains(hay, needle) ==
    \E i \in 0..(Len(hay) - Len(needle)) : SubSeq(hay, i + 1, i + Len(needle)) = needle

\* C17 as stated: for every secret content, the Debug output of the SecureString
\* or SecureBytes holding it does not contain the secret as a substring.
C17_NeverContainsSecret ==
    \A n \in 1..Len(fmtLog) : ~Contains(fmtLog[n].out, fmtLog[n].secret)

\* C17 amended: the Debug output does not depend on the content: it is the fixed
\* text "SecureString([REDACTED])" for a SecureString and, for a SecureBytes,
\* "SecureBytes([REDACTED, n bytes])" with n the length; it contains the secret
\* exactly when the secret is a substring of that fixed text.
C17_DebugIgnoresContent ==
    /\ \A n \in 1..Len(fmtLog) :
          /\ fmtLog[n].kind = "SecureString" =>
                fmtLog[n].out = Bytes(<<83, 101, 99, 117, 114, 101, 83, 116, 114, 105, 110, 103, 40, 91, 82, 69, 68, 65, 67, 84, 69, 68, 93, 41>>)
          /\ fmtLog[n].kind = "SecureBytes" =>
                fmtLog[n].out = Bytes(<<83, 101, 99, 117, 114, 101, 66, 121, 116, 101, 115, 40, 91, 82, 69, 68, 65, 67, 84, 69, 68, 44, 32>>)
                                  \o Decimal(Len(fmtLog[n].secret))
                                  \o Bytes(<<32, 98, 121, 116, 101, 115, 93, 41>>)
    /\ \A i, j \in 1..Len(fmtLog) :
          (/\ fmtLog[i].kind = fmtLog[j].kind
           /\ Len(fmtLog[i].secret) = Len(fmtLog[j].secret)) => fmtLog[i].out = fmtLog[j].out

\* "secret" and "hunter2" formatted: the same output, neither secret in it
C17_Witness ==
    \E i, j \in 1..Len(fmtLog) :
        /\ fmtLog[i].secret = Bytes(<<115, 101, 99, 114, 101, 116>>)
        /\ fmtLog[j].secret = Bytes(<<104, 117, 110, 116, 101, 114, 50>>)
        /\ fmtLog[i].out = fmtLog[j].out
        /\ ~Contains(fmtLog[i].out, fmtLog[i].secret)
        /\ ~Contains(fmtLog[j].out, fmtLog[j].secret)

\* two binary keys of 32 and of 4 bytes formatted: outputs that differ in the length
C17_WitnessBytes ==
    \E i, j \in 1..Len(fmtLog) :
        /\ fmtLog[i].secret = Fill(KEY_LEN, 7)
        /\ fmtLog[j].secret = Bytes(<<222, 173, 190, 239>>)
        /\ fmtLog[i].out # fmtLog[j].out
        /\ ~Contains(fmtLog[i].out, fmtLog[i].secret)

(* ==================== properties of the secure buffers ==================== *)
Released(kinds) == {i \in 1..Len(heap) : ~heap[i].live /\ heap[i].kind \in kinds}

AllZero(b) == \A p \in 1..Len(b.mem) : b.mem[p] = Byte(0)

\* C8: every SecureBytes and SecureString that has been destroyed, on a normal or
\* on an error return of the operation that held it, has its whole backing buffer
\* overwritten with zeros.
C8_ZeroizedOnDrop ==
    \A i \in Released(SecureKinds) : AllZero(heap[i]) /\ heap[i].len = 0

\* the plaintext of decrypt_string, released on the invalid UTF-8 error return
C8_Witness ==
    /\ memRes = "Invalid UTF-8"
    /\ \E i \in Released({"SecureBytes"}) :
         heap[i].role = "plaintext" /\ Len(heap[i].mem) > TAG_SIZE /\ AllZero(heap[i])

\* the master key, released on the normal return of derive_key
C8_WitnessMaster ==
    /\ memRes = "derive_key ok"
    /\ \E i \in Released({"SecureBytes"}) :
         heap[i].role = "master_key" /\ Len(heap[i].mem) = 32 /\ AllZero(heap[i])

\* a password the caller dropped
C8_WitnessString ==
    \E i \in Released({"SecureString"}) : Len(heap[i].mem) > 0 /\ AllZero(heap[i])

\* The buffers that hold or held the Argon2id master key: the Output inside the
\* PasswordHash that hash_password returns (the local hash of derive_master_key) and
\* the Vec copied from it that becomes the SecureBytes master_key.
MasterKeyBuffers == {i \in 1..Len(heap) : heap[i].role \in {"argon2_output", "master_key"}}

\* C27: after every return of derive_key no buffer that held the master key is live
\* and each of them is overwritten with zeros, so that the domain key of the returned
\* DerivedKey is the only key material left in memory.
C27_MasterKeyZeroized ==
    \A i \in MasterKeyBuffers : ~heap[i].live /\ AllZero(heap[i])

\* derive_key returned a key: the SecureBytes that held the master key is zeroed.
C27_Witness ==
    /\ memRes = "derive_key ok"
    /\ \E i \in MasterKeyBuffers :
          heap[i].kind = "SecureBytes" /\ ~heap[i].live /\ AllZero(heap[i])

\* The buffers that held decrypted plaintext inside decrypt and decrypt_string and
\* have been released: the SecureBytes of decrypt and the Vec of plaintext.to_vec().
ReleasedPlaintext ==
    {i \in 1..Len(heap) : ~heap[i].live /\ heap[i].role \in {"plaintext", "utf8_copy"}}

\* C28: on every return of decrypt and decrypt_string, the invalid UTF-8 error
\* return included, every buffer that held plaintext inside the cipher and has been
\* released is overwritten with zeros.
C28_PlaintextZeroized ==
    \A i \in ReleasedPlaintext : AllZero(heap[i])

====
